---- MODULE Spec2Model ----
(***************************************************************************)
(* Article lifecycle of the DV backend: the transactional create, update   *)
(* and delete handlers of the news aggregate, run against a PostgreSQL     *)
(* connection pool.  Every handler is a small state machine whose steps    *)
(* are the statements it awaits; the database is modelled with READ        *)
(* COMMITTED transactions: a connection sees the committed rows plus its   *)
(* own pending writes, a failed statement aborts the open transaction      *)
(* (every later statement fails until ROLLBACK, and COMMIT then discards   *)
(* the work without raising an error).                                     *)
(***************************************************************************)
EXTENDS Integers, Sequences, FiniteSets, TLC

\* ------------------------------------------------------------------ bounds
MaxRequests == 1      \* requests served in one run, any request body
MaxSequence == 2      \* requests served in one run, well-formed bodies only
MaxFaults == 2        \* statements the environment may fail in one run
MaxFiles == 1         \* files uploaded with one write request
DeleteFaults == 1     \* statements the environment may fail in one delete run
ConcurrentFaults == 1 \* statements the environment may fail in a concurrent run
MaxReads == 1         \* reads served in a concurrent run
SequenceRequests == 3 \* creates and updates served one after another
MaxBatch == 2         \* elements of a bulk request's news_ids
NumInitial == 2        \* articles present before the first request
NumAdmins == 1         \* rows of table admins
AuthRequests == 4      \* requests of one browser, one after another
MaxBody == 4          \* tokens of a raw body

Slots == {1}
ConcurrentSlots == {1, 2}
ArticleIds == 1..(NumInitial + MaxSequence)
AdminIds == 1..NumAdmins
CategoryIds == {3, 7}

\* ------------------------------------------------------------------ schema
CoreTables == {"news_categories", "news_images", "news_social_media"}
PromotionTables == {"breaking_news", "featured_news", "pinned_news"}
DependentTables ==
  CoreTables \cup PromotionTables \cup
  {"news_videos", "news_content_blocks", "news_comments", "news_reactions",
   "news_shares", "user_saved_articles", "page_views",
   "news_approval_history", "news_approval", "likes", "post_promotions"}

Statuses == {"draft", "pending_approval", "published", "archived"}
Roles == {"super_admin", "admin", "editor", "moderator"}

VARIABLES
  schema,   \* the deployment's schema: missing tables, foreign keys, unique links
  news,     \* committed rows of table news, by news_id
  rows,     \* committed rows of every dependent table
  audit,    \* committed rows of admin_activity_log
  nextId,   \* the news_id sequence
  faults,   \* statements the environment may still fail
  started,  \* requests started so far
  h,        \* per slot: the handler's position, input and locals
  tx,       \* per slot: the transaction of the handler's pooled connection
  resp,     \* per slot: the HTTP response sent, if any
  held,     \* per slot: the pooled connection is checked out
  seen,     \* what the reads so far returned
  promo,    \* promotion rows and engagement counters, by table and news_id
  surface,  \* the surface read in flight and its response
  admins,   \* rows of table admins, by admin_id: status and role
  session,  \* req.session of the one browser: adminId, 0 while it has none
  formatting \* a raw body and what the replacements done so far made of it

vars ==
  <<schema, news, rows, audit, nextId, faults, started, h, tx, resp, held, seen,
    promo, surface, admins, session, formatting>>
db == <<news, rows, audit>>

\* ------------------------------------------------------------------ rows
NoRow == [exists |-> FALSE, status |-> "none", primary |-> 0, category |-> 0,
          quotes |-> "none", image |-> 0, published |-> 0, slug |-> <<>>]
Keep == [exists |-> FALSE, status |-> "keep", primary |-> 0, category |-> 0,
         quotes |-> "none", image |-> 0, published |-> 0, slug |-> <<>>]

DepRow(t, id, k, f, n) == [t |-> t, id |-> id, k |-> k, f |-> f, n |-> n]
AuditRow(action, target, n) == [action |-> action, target |-> target, n |-> n]

NoTx == [st |-> "idle", ins |-> {}, del |-> {}, aud |-> {},
         nw |-> [a \in ArticleIds |-> Keep]]

\* A session nobody has logged in to; a destroyed session is replaced by one.
NoSession == [adminId |-> 0]

NoRead == [reads |-> 0, bare |-> {}, midway |-> FALSE]

\* What the connection of slot r reads: committed rows and its own writes.
TxRows(r) == (rows \ tx[r].del) \cup tx[r].ins
TxNews(r, id) == IF tx[r].nw[id] = Keep THEN news[id] ELSE tx[r].nw[id]
TxAudit(r) == audit \cup tx[r].aud

RowsOf(S, t, id) == {x \in S : x.t = t /\ x.id = id}
PrimaryLinks(S, id) == {x \in S : x.t = "news_categories" /\ x.id = id /\ x.f}
Refs(S, id) == {x \in S : x.id = id}

\* ------------------------------------------------------------------ row locks
\* The rows a transaction has updated or deleted stay locked until it ends,
\* also while it is aborted and waits for its ROLLBACK: the article rows it
\* wrote and the dependent rows it deleted.
Locks(r) ==
  IF tx[r].st \notin {"open", "aborted"} THEN {}
  ELSE {<<"news", a>> : a \in {b \in ArticleIds :
                                  tx[r].nw[b] # Keep /\ news[b].exists}}
         \cup {<<x.t, x.id>> : x \in tx[r].del}

\* ------------------------------------------------------------------ statements
\* A statement on table t raises an error when the transaction is already
\* aborted (25P02), when the table does not exist, or when the environment fails
\* it.
StmtFails(r, t, inject) ==
  tx[r].st # "open" \/ t \in schema.missing \/ inject

Aborted(r) == [tx[r] EXCEPT !.st = "aborted", !.ins = {}, !.aud = {}]
Lost == [NoTx EXCEPT !.st = "lost"]

CopyNo(r, t, id, k) ==
  1 + Cardinality({x \in TxRows(r) : x.t = t /\ x.id = id /\ x.k = k})

\* INSERT INTO <dependent table>: the foreign key to news, where declared, and
\* the unique (news_id, category_id) pair, where declared, are checked.
InsertFails(r, t, id, k, inject) ==
  \/ StmtFails(r, t, inject)
  \/ schema.fk # "none" /\ ~TxNews(r, id).exists
  \/ /\ t = "news_categories" /\ schema.uniqueLinks
     /\ \E x \in RowsOf(TxRows(r), t, id) : x.k = k

InsertRow(r, t, id, k, f) ==
  [tx[r] EXCEPT !.ins = @ \cup {DepRow(t, id, k, f, CopyNo(r, t, id, k))}]

\* DELETE FROM <dependent table> WHERE news_id = id
DeleteWhere(r, t, id) ==
  [tx[r] EXCEPT !.del = @ \cup RowsOf(rows, t, id),
                !.ins = @ \ RowsOf(@, t, id)]

RowCount(r, t, id) == Cardinality(RowsOf(TxRows(r), t, id))

\* DELETE FROM news WHERE news_id = id: a foreign key without a referential
\* action refuses it while a dependent row refers to the article; one declared
\* ON DELETE CASCADE removes those rows with it.
DeleteNewsFails(r, id, inject) ==
  \/ StmtFails(r, "news", inject)
  \/ schema.fk = "restrict" /\ TxNews(r, id).exists /\ Refs(TxRows(r), id) # {}

DeleteNews(r, id) ==
  IF ~TxNews(r, id).exists THEN tx[r]
  ELSE [tx[r] EXCEPT
          !.nw[id] = NoRow,
          !.del = IF schema.fk = "cascade" THEN @ \cup Refs(rows, id) ELSE @,
          !.ins = IF schema.fk = "cascade" THEN @ \ Refs(@, id) ELSE @]

NewsRowCount(r, id) == IF TxNews(r, id).exists THEN 1 ELSE 0

\* UPDATE news SET ... WHERE news_id = id
UpdateNews(r, id, row) ==
  IF ~TxNews(r, id).exists THEN tx[r] ELSE [tx[r] EXCEPT !.nw[id] = row]

\* INSERT INTO admin_activity_log
InsertAudit(r, action, target) ==
  [tx[r] EXCEPT !.aud = @ \cup
     {AuditRow(action, target,
        1 + Cardinality({x \in TxAudit(r) :
                           x.action = action /\ x.target = target}))}]

\* COMMIT makes the pending writes of an open transaction the committed state;
\* on an aborted transaction it is answered with ROLLBACK and raises nothing.
CommittedNews(r) ==
  IF tx[r].st = "open" THEN [a \in ArticleIds |-> TxNews(r, a)] ELSE news
CommittedRows(r) == IF tx[r].st = "open" THEN TxRows(r) ELSE rows
CommittedAudit(r) == IF tx[r].st = "open" THEN TxAudit(r) ELSE audit

\* ------------------------------------------------------------------ request values
\* A form field as the handler receives it: absent (undefined or ''), a text
\* that starts with no digit ("abc"), a string of digits ("7"), or digits
\* followed by other characters ("7abc").
Absent == [kind |-> "absent", n |-> 0]
Text == [kind |-> "text", n |-> 0]
Num(n) == [kind |-> "num", n |-> n]
Prefixed(n) == [kind |-> "prefixed", n |-> n]
\* category_ids / social_media_links / news_ids: absent, a text that is no JSON,
\* a JSON value that is no array, or a JSON array.
AbsentList == [kind |-> "absent", a |-> <<>>]
TextList == [kind |-> "text", a |-> <<>>]
NonArray == [kind |-> "nonarray", a |-> <<>>]
Array(a) == [kind |-> "array", a |-> a]

Truthy(v) == v.kind # "absent"

\* parseInt(val, 10) reads the leading digits and ignores what follows; NaN and
\* a falsy val give the fallback 0.
parseIntSafe(v) == IF v.kind \in {"num", "prefixed"} THEN v.n ELSE 0

safeJSON(v) == IF v.kind \in {"absent", "text"} THEN Array(<<>>) ELSE v

IsArray(v) == v.kind = "array"

Includes(a, x) == \E j \in 1..Len(a) : a[j] = x

\* A body is a sequence of tokens: a letter, a blank, or one of the quote tags.
\* Width is the number of characters of a token and Chars the body as the
\* string the regular expression runs over, one element per character.
Width(tok) ==
  CASE tok = "[QUOTE]" -> 7
    [] tok = "[QUOTE sayer=\"s\"]" -> 17
    [] tok = "[/QUOTE]" -> 8
    [] OTHER -> 1

RECURSIVE Chars(_)
Chars(raw) ==
  IF raw = <<>> THEN <<>>
  ELSE [i \in 1..Width(Head(raw)) |-> <<Head(raw), i>>] \o Chars(Tail(raw))

\* /\[QUOTE(?:\s+sayer="([^"]*)")?\](.*?)\[\/QUOTE\]/gs run with exec until it
\* finds nothing more: each match starts at the next opening tag and ends at
\* the first closing tag after it; the record keeps the trimmed text between
\* them, the sayer, and match.index, the offset of the opening tag.
extractQuotes(content) ==
  LET RECURSIVE Trim(_)
      Trim(t) ==
        IF t # <<>> /\ Head(t) = " " THEN Trim(Tail(t))
        ELSE IF t # <<>> /\ t[Len(t)] = " " THEN Trim(SubSeq(t, 1, Len(t) - 1))
        ELSE t
      RECURSIVE Scan(_)
      Scan(from) ==
        LET opens == {j \in from..Len(content) :
                        content[j] \in {"[QUOTE]", "[QUOTE sayer=\"s\"]"}}
            j == CHOOSE x \in opens : \A y \in opens : x <= y
            closes == {k \in (j + 1)..Len(content) : content[k] = "[/QUOTE]"}
            k == CHOOSE x \in closes : \A y \in closes : x <= y
        IN IF opens = {} THEN <<>>
           ELSE IF closes = {} THEN <<>>
           ELSE <<[text |-> Trim(SubSeq(content, j + 1, k - 1)),
                   sayer |-> IF content[j] = "[QUOTE]" THEN "null" ELSE "s",
                   position |-> Len(Chars(SubSeq(content, 1, j - 1)))]>>
                \o Scan(k + 1)
  IN Scan(1)

\* can_publish_directly: ['super_admin', 'admin', 'editor'].includes(role)
canPublishDirectly(role) == role \in {"super_admin", "admin", "editor"}

\* A gate that lets every role publish directly.
PublishGateAnyRole(status, role) == <<status, FALSE>>

\* The publish gate: <<finalStatus, requiresApproval>>.
PublishGate(status, role) ==
  IF status = "published" /\ ~canPublishDirectly(role)
  THEN <<"pending_approval", TRUE>>
  ELSE <<status, FALSE>>

NoInput ==
  [title |-> "", content |-> <<>>, cats |-> AbsentList, primary |-> Absent,
   author |-> Absent, status |-> "draft", role |-> "moderator",
   social |-> AbsentList, files |-> <<>>, id |-> Absent, ids |-> AbsentList]

\* A validation that omits the membership rule of the primary category.
ValidateCreateNoMembership(in) ==
  IF \/ in.title = "" \/ in.content = <<>> \/ ~Truthy(in.cats)
     \/ ~Truthy(in.primary) \/ ~Truthy(in.author)
  THEN "Missing required fields"
  ELSE IF parseIntSafe(in.author) = 0 THEN "Invalid author_id"
  ELSE IF ~IsArray(safeJSON(in.cats)) \/ Len(safeJSON(in.cats).a) = 0
  THEN "At least one category must be selected"
  ELSE IF parseIntSafe(in.primary) = 0 THEN "Primary category ID is required"
  ELSE "ok"

\* A validation of create that looks at the category set before the author.
ValidateCreateCategoriesFirst(in) ==
  IF \/ in.title = "" \/ in.content = <<>> \/ ~Truthy(in.cats)
     \/ ~Truthy(in.primary) \/ ~Truthy(in.author)
  THEN "Missing required fields"
  ELSE IF ~IsArray(safeJSON(in.cats)) \/ Len(safeJSON(in.cats).a) = 0
  THEN "At least one category must be selected"
  ELSE IF parseIntSafe(in.author) = 0 THEN "Invalid author_id"
  ELSE IF parseIntSafe(in.primary) = 0 THEN "Primary category ID is required"
  ELSE IF ~Includes(safeJSON(in.cats).a, parseIntSafe(in.primary))
  THEN "Primary category must be one of the selected categories"
  ELSE "ok"

\* The create handler's validation, in the order of its early returns.
ValidateCreate(in) ==
  IF \/ in.title = "" \/ in.content = <<>> \/ ~Truthy(in.cats)
     \/ ~Truthy(in.primary) \/ ~Truthy(in.author)
  THEN "Missing required fields"
  ELSE IF parseIntSafe(in.author) = 0 THEN "Invalid author_id"
  ELSE IF ~IsArray(safeJSON(in.cats)) \/ Len(safeJSON(in.cats).a) = 0
  THEN "At least one category must be selected"
  ELSE IF parseIntSafe(in.primary) = 0 THEN "Primary category ID is required"
  ELSE IF ~Includes(safeJSON(in.cats).a, parseIntSafe(in.primary))
  THEN "Primary category must be one of the selected categories"
  ELSE "ok"

\* An update validation that omits the membership rule of the primary category.
ValidateUpdateNoMembership(in) ==
  IF \/ in.title = "" \/ in.content = <<>> \/ ~Truthy(in.cats)
     \/ ~Truthy(in.primary)
  THEN "Missing required fields"
  ELSE IF ~IsArray(safeJSON(in.cats)) \/ Len(safeJSON(in.cats).a) = 0
  THEN "At least one category must be selected"
  ELSE IF parseIntSafe(in.primary) = 0 THEN "Primary category ID is required"
  ELSE "ok"

\* The update handler's validation (no author_id rule).
ValidateUpdate(in) ==
  IF \/ in.title = "" \/ in.content = <<>> \/ ~Truthy(in.cats)
     \/ ~Truthy(in.primary)
  THEN "Missing required fields"
  ELSE IF ~IsArray(safeJSON(in.cats)) \/ Len(safeJSON(in.cats).a) = 0
  THEN "At least one category must be selected"
  ELSE IF parseIntSafe(in.primary) = 0 THEN "Primary category ID is required"
  ELSE IF ~Includes(safeJSON(in.cats).a, parseIntSafe(in.primary))
  THEN "Primary category must be one of the selected categories"
  ELSE "ok"

\* ------------------------------------------------------------------ handlers
NoResults == [success |-> <<>>, failed |-> <<>>]
NoResp == [code |-> 0, success |-> FALSE, message |-> "", status |-> "none",
           requires_approval |-> FALSE, news_id |-> 0, results |-> NoResults,
           error |-> {}]
Response(code, success, message) ==
  [NoResp EXCEPT !.code = code, !.success = success, !.message = message]

Snapshot == [news |-> news, rows |-> rows, audit |-> audit]

Idle == [route |-> "none", pc |-> "idle", in |-> NoInput, newsId |-> 0, i |-> 0,
         item |-> 0, rootCount |-> 0,
         finalStatus |-> "none", requiresApproval |-> FALSE, count |-> 0,
         results |-> NoResults, failed |-> {}, ord |-> 0, adminId |-> 0,
         pre |-> [news |-> [a \in ArticleIds |-> NoRow], rows |-> {}, audit |-> {}]]

\* The environment may fail a statement while its budget lasts: a statement
\* that reads or writes rows, or the ROLLBACK of a catch block.  BEGIN, COMMIT
\* and the ROLLBACK that precedes a 4xx answer are taken to succeed.
Inject == IF faults > 0 THEN {FALSE, TRUE} ELSE {FALSE}
Spend(inject) == IF inject THEN faults - 1 ELSE faults

Free(r, quota) == h[r].pc \in {"idle", "done"} /\ started < quota

\* pool.connect() and BEGIN, common to every write handler.
Begin(r, route, quota) ==
  /\ Free(r, quota)
  /\ started' = started + 1
  /\ held' = [held EXCEPT ![r] = TRUE]
  /\ tx' = [tx EXCEPT ![r] = [NoTx EXCEPT !.st = "open"]]
  /\ resp' = [resp EXCEPT ![r] = NoResp]
  /\ h' = [h EXCEPT ![r] = [Idle EXCEPT !.route = route, !.pc = "begun",
                                           !.ord = started + 1,
                                           !.pre = Snapshot]]
  /\ UNCHANGED <<formatting, admins, session, promo, surface, seen, schema, news, rows, audit, nextId, faults>>

\* A statement raised: control passes to the handler's catch block.  A failed
\* SQL statement leaves the transaction aborted.
Raise(r, inject, failedStmt, sql) ==
  /\ tx' = [tx EXCEPT ![r] = IF sql THEN Aborted(r) ELSE @]
  /\ faults' = Spend(inject)
  /\ h' = [h EXCEPT ![r].pc = "catch", ![r].failed = @ \cup {failedStmt}]
  /\ UNCHANGED <<formatting, admins, session, promo, surface, seen, schema, news, rows, audit, nextId, started, resp, held>>

\* The statement succeeded: the transaction holds its write, control moves on.
Proceed(r, newTx, newH) ==
  /\ tx' = [tx EXCEPT ![r] = newTx]
  /\ h' = [h EXCEPT ![r] = newH]
  /\ UNCHANGED <<formatting, admins, session, promo, surface, seen, schema, news, rows, audit, nextId, faults, started, resp, held>>

\* ------------------------------------------------------------------ routes
\* The five single-delete handlers: the post router's, the client router's, and
\* the three admin variants (safeDelete, cascade-only, explicit).
SingleRoutes ==
  {"delete_post", "delete_client", "delete_safe", "delete_nuclear", "delete_explicit"}
BulkRoutes == {"bulk_client", "bulk_safe", "bulk_nuclear", "bulk_explicit"}

AdminTables ==
  <<"breaking_news", "featured_news", "pinned_news", "news_categories",
    "news_images", "news_social_media", "news_videos", "news_content_blocks",
    "news_comments", "news_reactions", "news_shares", "user_saved_articles",
    "page_views", "news_approval_history", "news_approval">>
ClientTables ==
  <<"news_categories", "news_images", "news_social_media", "news_comments",
    "likes", "post_promotions", "featured_news">>
PostTables == <<"news_categories", "news_social_media", "news_images">>

\* The dependent tables a handler deletes from, in its order.
TablesOf(route) ==
  CASE route = "delete_post" -> PostTables
    [] route \in {"delete_client", "bulk_client"} -> ClientTables
    [] route \in {"delete_safe", "bulk_safe", "delete_explicit", "bulk_explicit"}
         -> AdminTables
    [] OTHER -> <<>>

\* ------------------------------------------------------------------ waiting
\* The rows the next statement of slot r must lock.  The root DELETE also
\* visits the referencing rows where a foreign key is declared.  A statement
\* of an aborted transaction is refused at once and locks nothing.
Wants(r) ==
  LET id == h[r].newsId IN
  CASE tx[r].st # "open" -> {}
    [] h[r].pc = "write_news" /\ h[r].route = "update" -> {<<"news", id>>}
    [] h[r].pc = "delete_cats" -> {<<"news_categories", id>>}
    [] h[r].pc = "delete_social" -> {<<"news_social_media", id>>}
    [] h[r].pc = "dependent" -> {<<TablesOf(h[r].route)[h[r].i], id>>}
    [] h[r].pc = "root" ->
         {<<"news", id>>} \cup
           (IF schema.fk = "none" THEN {}
            ELSE {<<t, id>> : t \in DependentTables})
    [] OTHER -> {}

\* A database in which no statement waits for a row lock.
NeverWaits(r) == FALSE

\* Slot r wants a row another transaction holds; in a deadlock each of two
\* slots wants a row of the other, and the server fails one of them (40P01).
Deadlock(r) ==
  \E q \in ConcurrentSlots \ {r} :
    Wants(r) \cap Locks(q) # {} /\ Wants(q) \cap Locks(r) # {}
Waits(r) ==
  /\ \E q \in ConcurrentSlots \ {r} : Wants(r) \cap Locks(q) # {}
  /\ ~Deadlock(r)

\* ------------------------------------------------------------------ create and update
Titles == {"", "t"}
Contents == {<<>>, <<"a">>, <<"[QUOTE]", "a", "[/QUOTE]">>}
CategoryLists ==
  {AbsentList, TextList, NonArray, Array(<<>>), Array(<<3>>),
   Array(<<3, 7>>), Array(<<7, 7>>)}
\* The request bodies of the concurrent runs: complete, with one or two
\* categories and a primary category that is or is not among them.
SequenceForms ==
  {[NoInput EXCEPT !.title = "t", !.content = <<"a">>, !.cats = cs,
                   !.primary = Num(p), !.author = Num(5)] :
     cs \in {Array(<<3>>), Array(<<3, 7>>)}, p \in {3, 7}}
PrimaryValues == {Absent, Text, Num(0), Num(3), Num(7), Prefixed(7)}
AuthorValues == {Absent, Text, Num(0), Num(5), Prefixed(5)}
SocialLists == {AbsentList, NonArray, Array(<<"blank", "url">>)}
FileLists == UNION {[1..n -> BOOLEAN] : n \in 0..MaxFiles}

\* The fields the validation reads.
Forms ==
  {[NoInput EXCEPT !.title = t, !.content = c, !.cats = cs, !.primary = p,
                   !.author = a] :
     t \in Titles, c \in Contents, cs \in CategoryLists, p \in PrimaryValues,
     a \in AuthorValues}
\* The fields the publish gate reads.
GateOptions == {[status |-> s, role |-> ro] : s \in Statuses, ro \in Roles}
\* The fields read after the category links are written.
MediaOptions == {[social |-> so, files |-> f] : so \in SocialLists, f \in FileLists}

Url(ord, i) == ord * (MaxFiles + 1) + i

\* The time a request reads from the clock (new Date(), NOW()); published_at
\* is 0 while it is null.  Initial article a was published at time a.
Now(r) == NumInitial + h[r].ord

\* A published_at that every write with status 'published' sets anew.
PublishedAtOverwritten(status, old, now) ==
  IF status = "published" THEN now ELSE old

\* published_at = CASE WHEN $10 = 'published' AND published_at IS NULL
\*                     THEN NOW() ELSE published_at END
PublishedAt(status, old, now) ==
  IF status = "published" /\ old = 0 THEN now ELSE old

\* Date.now(): the clock has advanced whenever a request arrived, so requests
\* in flight together may read the same millisecond.
DateNow == NumInitial + started

\* `${baseSlug}-${Date.now().toString(36).substring(-6)}`: substring(-6) is
\* substring(0), so the suffix is the whole clock reading in base 36.
generateSlug(title, now) == <<title, now>>

CreateStart(r, quota) == Begin(r, "create", quota)

UpdateStart(r, quota) == Begin(r, "update", quota)

\* The validation of create: any failure issues ROLLBACK and answers 400.
CreateValidate(r, forms) ==
  /\ h[r].route = "create" /\ h[r].pc = "begun"
  /\ \E in \in forms :
       IF ValidateCreate(in) # "ok"
       THEN /\ tx' = [tx EXCEPT ![r] = NoTx]
            /\ resp' = [resp EXCEPT ![r] = Response(400, FALSE, ValidateCreate(in))]
            /\ h' = [h EXCEPT ![r].pc = "finally", ![r].in = in]
            /\ UNCHANGED <<formatting, admins, session, promo, surface, seen, schema, news, rows, audit, nextId, faults, started, held>>
       ELSE Proceed(r, tx[r], [h[r] EXCEPT !.pc = "write_news", !.in = in])

\* An update that goes on to its validation whether or not the article exists.
UpdateCheckNoLookup(r, ids) ==
  /\ h[r].route = "update" /\ h[r].pc = "begun"
  /\ \E id \in ids, inject \in Inject :
       IF StmtFails(r, "news", inject)
       THEN Raise(r, inject, "check", TRUE)
       ELSE Proceed(r, tx[r], [h[r] EXCEPT !.pc = "validate", !.newsId = id])

\* The existence check of update: 404 after ROLLBACK when the article is absent.
UpdateCheck(r, ids) ==
  /\ h[r].route = "update" /\ h[r].pc = "begun"
  /\ \E id \in ids, inject \in Inject :
       IF StmtFails(r, "news", inject)
       THEN Raise(r, inject, "check", TRUE)
       ELSE IF ~TxNews(r, id).exists
       THEN /\ tx' = [tx EXCEPT ![r] = NoTx]
            /\ resp' = [resp EXCEPT ![r] = Response(404, FALSE, "Post not found")]
            /\ h' = [h EXCEPT ![r].pc = "finally", ![r].newsId = id]
            /\ UNCHANGED <<formatting, admins, session, promo, surface, seen, schema, news, rows, audit, nextId, faults, started, held>>
       ELSE Proceed(r, tx[r], [h[r] EXCEPT !.pc = "validate", !.newsId = id])

UpdateValidate(r, forms) ==
  /\ h[r].route = "update" /\ h[r].pc = "validate"
  /\ \E in \in forms :
       IF ValidateUpdate(in) # "ok"
       THEN /\ tx' = [tx EXCEPT ![r] = NoTx]
            /\ resp' = [resp EXCEPT ![r] = Response(400, FALSE, ValidateUpdate(in))]
            /\ h' = [h EXCEPT ![r].pc = "finally", ![r].in = in]
            /\ UNCHANGED <<formatting, admins, session, promo, surface, seen, schema, news, rows, audit, nextId, faults, started, held>>
       ELSE Proceed(r, tx[r], [h[r] EXCEPT !.pc = "write_news", !.in = in])

WithGate(in, o) == [in EXCEPT !.status = o.status, !.role = o.role]
WithMedia(in, o) == [in EXCEPT !.social = o.social, !.files = o.files]

\* INSERT INTO news ... RETURNING news_id, after the publish gate.
CreateInsertNews(r, options) ==
  /\ h[r].route = "create" /\ h[r].pc = "write_news"
  /\ \E o \in options, inject \in Inject :
       LET gate == PublishGate(o.status, o.role)
           primary == parseIntSafe(h[r].in.primary)
           row == [exists |-> TRUE, status |-> gate[1], primary |-> primary,
                   category |-> primary, quotes |-> "none", image |-> 0,
                   published |-> IF gate[1] = "published" THEN Now(r) ELSE 0,
                   slug |-> generateSlug(h[r].in.title, DateNow)]
       IN IF StmtFails(r, "news", inject)
          THEN Raise(r, inject, "news", TRUE)
          ELSE /\ nextId' = nextId + 1
               /\ tx' = [tx EXCEPT ![r].nw[nextId] = row]
               /\ h' = [h EXCEPT ![r].pc = "insert_cat", ![r].i = 1,
                                 ![r].newsId = nextId,
                                 ![r].in = WithGate(@, o),
                                 ![r].finalStatus = gate[1],
                                 ![r].requiresApproval = gate[2]]
               /\ UNCHANGED <<formatting, admins, session, promo, surface, seen, schema, news, rows, audit, faults, started, resp, held>>

\* UPDATE news SET ... WHERE news_id = $14, after the publish gate.
UpdateNewsRow(r, options) ==
  /\ h[r].route = "update" /\ h[r].pc = "write_news"
  /\ ~Waits(r)
  /\ \E o \in options, inject \in Inject :
       LET gate == PublishGate(o.status, o.role)
           primary == parseIntSafe(h[r].in.primary)
           row == [TxNews(r, h[r].newsId) EXCEPT
                     !.status = gate[1], !.primary = primary, !.category = primary,
                     !.published = PublishedAt(gate[1], @, Now(r)),
                     !.slug = generateSlug(h[r].in.title, DateNow)]
       IN IF StmtFails(r, "news", inject) \/ Deadlock(r)
          THEN Raise(r, inject, "news", TRUE)
          ELSE Proceed(r, UpdateNews(r, h[r].newsId, row),
                       [h[r] EXCEPT !.pc = "delete_cats",
                                    !.in = WithGate(@, o),
                                    !.finalStatus = gate[1],
                                    !.requiresApproval = gate[2]])

\* An update that leaves the article's old category links in place.
UpdateKeepCategories(r) ==
  /\ h[r].route = "update" /\ h[r].pc = "delete_cats"
  /\ ~Waits(r)
  /\ \E inject \in Inject :
       IF StmtFails(r, "news_categories", inject) \/ Deadlock(r)
       THEN Raise(r, inject, "delete_cats", TRUE)
       ELSE Proceed(r, tx[r], [h[r] EXCEPT !.pc = "insert_cat", !.i = 1])

\* DELETE FROM news_categories WHERE news_id = $1 (update only).
UpdateDeleteCategories(r) ==
  /\ h[r].route = "update" /\ h[r].pc = "delete_cats"
  /\ ~Waits(r)
  /\ \E inject \in Inject :
       IF StmtFails(r, "news_categories", inject) \/ Deadlock(r)
       THEN Raise(r, inject, "delete_cats", TRUE)
       ELSE Proceed(r, DeleteWhere(r, "news_categories", h[r].newsId),
                    [h[r] EXCEPT !.pc = "insert_cat", !.i = 1])

\* One turn of the loop over parsedCategoryIds: INSERT INTO news_categories.
WriteInsertCategory(r) ==
  /\ h[r].route \in {"create", "update"} /\ h[r].pc = "insert_cat"
  /\ \E inject \in Inject :
       LET cats == safeJSON(h[r].in.cats).a
           c == cats[h[r].i]
           isPrimary == c = parseIntSafe(h[r].in.primary)
       IN IF InsertFails(r, "news_categories", h[r].newsId, c, inject)
          THEN Raise(r, inject, "category", TRUE)
          ELSE Proceed(r, InsertRow(r, "news_categories", h[r].newsId, c, isPrimary),
                       IF h[r].i < Len(cats)
                       THEN [h[r] EXCEPT !.i = @ + 1]
                       ELSE [h[r] EXCEPT !.pc = "quotes"])

HasSocial(in) == IsArray(safeJSON(in.social)) /\ Len(safeJSON(in.social).a) > 0
AfterSocial(in) == IF Len(in.files) > 0 THEN "ingest" ELSE "audit"
AfterQuotes(route, in) ==
  IF route = "update" THEN "delete_social"
  ELSE IF HasSocial(in) THEN "social" ELSE AfterSocial(in)

\* UPDATE news SET quotes_data: create writes it only when quotes were found,
\* update always (the snapshot or '[]').
WriteQuotes(r, options) ==
  /\ h[r].route \in {"create", "update"} /\ h[r].pc = "quotes"
  /\ \E o \in options, inject \in Inject :
       LET found == extractQuotes(h[r].in.content) # <<>>
           writes == h[r].route = "update" \/ found
           row == [TxNews(r, h[r].newsId) EXCEPT
                     !.quotes = IF found THEN "snapshot" ELSE "empty"]
           in == WithMedia(h[r].in, o)
           next == [h[r] EXCEPT !.pc = AfterQuotes(h[r].route, in), !.i = 1,
                                !.in = in]
       IN IF writes
          THEN IF StmtFails(r, "news", inject)
               THEN Raise(r, inject, "quotes", TRUE)
               ELSE Proceed(r, UpdateNews(r, h[r].newsId, row), next)
          ELSE ~inject /\ Proceed(r, tx[r], next)

\* DELETE FROM news_social_media WHERE news_id = $1 (update only).
UpdateDeleteSocial(r) ==
  /\ h[r].route = "update" /\ h[r].pc = "delete_social"
  /\ ~Waits(r)
  /\ \E inject \in Inject :
       IF StmtFails(r, "news_social_media", inject) \/ Deadlock(r)
       THEN Raise(r, inject, "delete_social", TRUE)
       ELSE Proceed(r, DeleteWhere(r, "news_social_media", h[r].newsId),
                    [h[r] EXCEPT !.i = 1,
                       !.pc = IF HasSocial(h[r].in) THEN "social"
                              ELSE AfterSocial(h[r].in)])

\* One turn of the loop over parsedSocialLinks: a link with a non-blank post_url
\* is inserted, any other is skipped.
WriteSocial(r) ==
  /\ h[r].route \in {"create", "update"} /\ h[r].pc = "social"
  /\ \E inject \in Inject :
       LET links == safeJSON(h[r].in.social).a
           next == IF h[r].i < Len(links)
                   THEN [h[r] EXCEPT !.i = @ + 1]
                   ELSE [h[r] EXCEPT !.pc = AfterSocial(h[r].in), !.i = 0]
       IN IF links[h[r].i] = "url"
          THEN IF InsertFails(r, "news_social_media", h[r].newsId, h[r].i, inject)
               THEN Raise(r, inject, "social", TRUE)
               ELSE Proceed(r, InsertRow(r, "news_social_media", h[r].newsId,
                                         h[r].i, FALSE), next)
          ELSE ~inject /\ Proceed(r, tx[r], next)

\* processUploadedFiles(req.files): the media-ingestion collaborator.
WriteIngest(r) ==
  /\ h[r].route \in {"create", "update"} /\ h[r].pc = "ingest"
  /\ \E inject \in Inject :
       IF inject
       THEN Raise(r, inject, "ingest", FALSE)
       ELSE Proceed(r, tx[r], [h[r] EXCEPT !.pc = "insert_img", !.i = 0])

\* One turn of the loop over uploadedImageData: INSERT INTO news_images.  The
\* first file is featured, a later one when its metadata says so.
WriteInsertImage(r) ==
  /\ h[r].route \in {"create", "update"} /\ h[r].pc = "insert_img"
  /\ \E inject \in Inject :
       LET isFeatured == IF h[r].i = 0 THEN TRUE ELSE h[r].in.files[h[r].i + 1]
       IN IF InsertFails(r, "news_images", h[r].newsId, Url(h[r].ord, h[r].i), inject)
          THEN Raise(r, inject, "image", TRUE)
          ELSE Proceed(r, InsertRow(r, "news_images", h[r].newsId,
                                    Url(h[r].ord, h[r].i), isFeatured),
                       IF h[r].i + 1 < Len(h[r].in.files)
                       THEN [h[r] EXCEPT !.i = @ + 1]
                       ELSE [h[r] EXCEPT !.pc = "cover"])

\* UPDATE news SET image_url = featuredImageUrl (the first upload's url).
WriteCover(r) ==
  /\ h[r].route \in {"create", "update"} /\ h[r].pc = "cover"
  /\ \E inject \in Inject :
       IF StmtFails(r, "news", inject)
       THEN Raise(r, inject, "cover", TRUE)
       ELSE Proceed(r, UpdateNews(r, h[r].newsId,
                                  [TxNews(r, h[r].newsId) EXCEPT
                                     !.image = Url(h[r].ord, 0)]),
                    [h[r] EXCEPT !.pc = "audit"])

\* ------------------------------------------------------------------ single delete
\* The handlers that wrap each dependent DELETE in safeDelete.
UsesSafeDelete(route) == route \in {"delete_safe", "bulk_safe"}
\* The handlers that look at the root DELETE's rowCount.
ChecksRowCount(route) ==
  route \in {"delete_safe", "delete_nuclear", "bulk_safe", "bulk_nuclear"}
\* The handlers that test the id against /^\d+$/ before using it.
ChecksIdFormat(route) == route \in SingleRoutes \ {"delete_post"}
\* The handlers whose catch block wraps its ROLLBACK in try/catch.
GuardsRollback(route) == route \in SingleRoutes \ {"delete_post"}
\* The handlers that first remove the article's images from Cloudflare.
DeletesImages(route) == route \in {"delete_client", "bulk_client"}

AfterCheck(route) ==
  IF DeletesImages(route) THEN "images"
  ELSE IF Len(TablesOf(route)) > 0 THEN "dependent" ELSE "root"

DeleteStart(r, route, quota) ==
  /\ route \in SingleRoutes
  /\ Begin(r, route, quota)

\* for (const newsId of news_ids): on to the next element, or past the loop.
NextItem(hr) ==
  IF hr.item < Len(hr.in.ids.a)
  THEN [hr EXCEPT !.item = @ + 1, !.pc = "item"]
  ELSE [hr EXCEPT !.pc = "audit"]

\* results.failed.push({ id, reason }) and on with the loop.
ItemFailed(r, newTx, reason) ==
  Proceed(r, newTx,
          NextItem([h[r] EXCEPT !.results.failed =
                      Append(@, [id |-> h[r].in.ids.a[h[r].item],
                                 reason |-> reason])]))

\* A statement of a delete raised: the single handlers pass to their catch
\* block; a bulk handler's per-item catch records the id as failed and goes on
\* in the same, now aborted, transaction.
DeleteRaise(r, inject, failedStmt) ==
  IF h[r].route \in SingleRoutes
  THEN Raise(r, inject, failedStmt, TRUE)
  ELSE /\ tx' = [tx EXCEPT ![r] = Aborted(r)]
       /\ faults' = Spend(inject)
       /\ h' = [h EXCEPT ![r] =
                  NextItem([h[r] EXCEPT
                      !.failed = @ \cup {failedStmt},
                      !.results.failed =
                         Append(@, [id |-> h[r].in.ids.a[h[r].item],
                                    reason |-> "error"])])]
       /\ UNCHANGED <<formatting, admins, session, promo, surface, seen, schema, news, rows, audit, nextId, started, resp, held>>

IdValues == {Text, Prefixed(1)} \cup {Num(a) : a \in ArticleIds}

\* The id test and the existence check: 400, 404 (each after ROLLBACK) or on.
DeleteCheck(r, ids) ==
  /\ h[r].route \in SingleRoutes /\ h[r].pc = "begun"
  /\ \E id \in ids, inject \in Inject :
       LET newsId == parseIntSafe(id) IN
       IF id.kind # "num" /\ ChecksIdFormat(h[r].route)
       THEN /\ ~inject
            /\ tx' = [tx EXCEPT ![r] = NoTx]
            /\ resp' = [resp EXCEPT ![r] =
                          Response(400, FALSE, "Valid news ID is required")]
            /\ h' = [h EXCEPT ![r].pc = "finally", ![r].in.id = id]
            /\ UNCHANGED <<formatting, admins, session, promo, surface, seen, schema, news, rows, audit, nextId, faults, started, held>>
       ELSE IF id.kind = "text" \/ StmtFails(r, "news", inject)
       THEN Raise(r, inject, "check", TRUE)
       ELSE IF ~TxNews(r, newsId).exists
       THEN /\ tx' = [tx EXCEPT ![r] = NoTx]
            /\ resp' = [resp EXCEPT ![r] = Response(404, FALSE, "not found")]
            /\ h' = [h EXCEPT ![r].pc = "finally", ![r].in.id = id,
                              ![r].newsId = newsId]
            /\ UNCHANGED <<formatting, admins, session, promo, surface, seen, schema, news, rows, audit, nextId, faults, started, held>>
       ELSE Proceed(r, tx[r], [h[r] EXCEPT !.pc = AfterCheck(h[r].route), !.i = 1,
                                          !.in.id = id, !.newsId = newsId])

\* deleteCloudflareImages: two SELECTs inside a try/catch that swallows a failure.
DeleteImages(r) ==
  /\ h[r].pc = "images"
  /\ \E inject \in Inject :
       LET next == [h[r] EXCEPT !.pc = "dependent", !.i = 1] IN
       IF StmtFails(r, "news_images", inject)
       THEN /\ tx' = [tx EXCEPT ![r] = Aborted(r)]
            /\ faults' = Spend(inject)
            /\ h' = [h EXCEPT ![r] = [next EXCEPT !.failed = @ \cup {"images"}]]
            /\ UNCHANGED <<formatting, admins, session, promo, surface, seen, schema, news, rows, audit, nextId, started, resp, held>>
       ELSE Proceed(r, tx[r], next)

\* One dependent DELETE ... WHERE news_id = $1: bare, or inside safeDelete, which
\* logs a failure and returns 0.
DeleteDependent(r) ==
  /\ h[r].pc = "dependent"
  /\ ~Waits(r)
  /\ \E inject \in Inject :
       LET tables == TablesOf(h[r].route)
           t == tables[h[r].i]
           next == IF h[r].i < Len(tables)
                   THEN [h[r] EXCEPT !.i = @ + 1]
                   ELSE [h[r] EXCEPT !.pc = "root"]
       IN IF StmtFails(r, t, inject) \/ Deadlock(r)
          THEN IF UsesSafeDelete(h[r].route)
               THEN /\ tx' = [tx EXCEPT ![r] = Aborted(r)]
                    /\ faults' = Spend(inject)
                    /\ h' = [h EXCEPT ![r] = [next EXCEPT !.failed = @ \cup {t}]]
                    /\ UNCHANGED <<formatting, admins, session, promo, surface, seen, schema, news, rows, audit, nextId, started,
                                   resp, held>>
               ELSE DeleteRaise(r, inject, t)
          ELSE Proceed(r, DeleteWhere(r, t, h[r].newsId),
                       [next EXCEPT !.count = @ + RowCount(r, t, h[r].newsId)])

\* DELETE FROM news WHERE news_id = $1; two variants look at its rowCount: the
\* single handlers answer 500 after ROLLBACK when it removed no row, the bulk
\* handlers record the id as failed.  The other bulk handlers record success.
DeleteRoot(r) ==
  /\ h[r].pc = "root"
  /\ ~Waits(r)
  /\ \E inject \in Inject :
       IF DeleteNewsFails(r, h[r].newsId, inject) \/ Deadlock(r)
       THEN DeleteRaise(r, inject, "news")
       ELSE IF h[r].route \in BulkRoutes
       THEN IF ChecksRowCount(h[r].route) /\ NewsRowCount(r, h[r].newsId) = 0
            THEN ItemFailed(r, tx[r], "Delete failed")
            ELSE Proceed(r, DeleteNews(r, h[r].newsId),
                         NextItem([h[r] EXCEPT !.results.success =
                                     Append(@, h[r].in.ids.a[h[r].item])]))
       ELSE IF ChecksRowCount(h[r].route) /\ NewsRowCount(r, h[r].newsId) = 0
       THEN /\ tx' = [tx EXCEPT ![r] = NoTx]
            /\ resp' = [resp EXCEPT ![r] =
                          Response(500, FALSE, "Failed to delete news article")]
            /\ h' = [h EXCEPT ![r].pc = "finally"]
            /\ UNCHANGED <<formatting, admins, session, promo, surface, seen, schema, news, rows, audit, nextId, faults, started, held>>
       ELSE Proceed(r, DeleteNews(r, h[r].newsId),
                    [h[r] EXCEPT !.pc = "audit",
                                 !.rootCount = NewsRowCount(r, h[r].newsId),
                                 !.count = @ + NewsRowCount(r, h[r].newsId)])

\* ------------------------------------------------------------------ bulk delete
BulkStart(r, route, quota) ==
  /\ route \in BulkRoutes
  /\ Begin(r, route, quota)

BulkIdValues == {Text, Num(1), Num(2), Num(3)}
BulkLists ==
  {AbsentList, NonArray}
    \cup {Array(a) : a \in UNION {[1..n -> BulkIdValues] : n \in 0..MaxBatch}}

\* if (!news_ids || !Array.isArray(news_ids) || news_ids.length === 0): 400
\* after ROLLBACK.
BulkValidate(r, lists) ==
  /\ h[r].route \in BulkRoutes /\ h[r].pc = "begun"
  /\ \E ids \in lists :
       IF ~IsArray(ids) \/ Len(ids.a) = 0
       THEN /\ tx' = [tx EXCEPT ![r] = NoTx]
            /\ resp' = [resp EXCEPT ![r] =
                          Response(400, FALSE, "Valid news IDs array is required")]
            /\ h' = [h EXCEPT ![r].pc = "finally", ![r].in.ids = ids]
            /\ UNCHANGED <<formatting, admins, session, promo, surface, seen, schema, news, rows, audit, nextId, faults, started, held>>
       ELSE Proceed(r, tx[r], [h[r] EXCEPT !.pc = "item", !.item = 1,
                                          !.in.ids = ids])

\* The per-item existence check.  An element that is not an integer makes the
\* SELECT raise (invalid input syntax for type integer).
BulkCheck(r) ==
  /\ h[r].route \in BulkRoutes /\ h[r].pc = "item"
  /\ \E inject \in Inject :
       LET id == h[r].in.ids.a[h[r].item] IN
       IF id.kind # "num" \/ StmtFails(r, "news", inject)
       THEN DeleteRaise(r, inject, "check")
       ELSE IF ~TxNews(r, id.n).exists
       THEN ItemFailed(r, tx[r], "Not found")
       ELSE Proceed(r, tx[r], [h[r] EXCEPT !.pc = AfterCheck(h[r].route),
                                          !.i = 1, !.newsId = id.n])

\* ------------------------------------------------------------------ end of a handler
ActionOf(route) ==
  CASE route = "create" -> "create_post"
    [] route = "update" -> "update_post"
    [] route = "delete_post" -> "delete_post"
    [] route \in BulkRoutes -> "bulk_delete"
    [] OTHER -> "delete_news"

\* logAdminActivity: the INSERT runs on the handler's connection, inside its
\* transaction, and a failure is logged and swallowed.
LogActivity(r) ==
  /\ h[r].pc = "audit"
  /\ \E inject \in Inject :
       IF StmtFails(r, "admin_activity_log", inject)
       THEN /\ tx' = [tx EXCEPT ![r] = Aborted(r)]
            /\ faults' = Spend(inject)
            /\ h' = [h EXCEPT ![r].pc = "commit", ![r].failed = @ \cup {"audit"}]
            /\ UNCHANGED <<formatting, admins, session, promo, surface, seen, schema, news, rows, audit, nextId, started, resp, held>>
       ELSE Proceed(r, InsertAudit(r, ActionOf(h[r].route),
                                   IF h[r].route \in BulkRoutes THEN 0
                                   ELSE h[r].newsId),
                    [h[r] EXCEPT !.pc = "commit"])

\* The response of a handler that reached its COMMIT.
SuccessResponse(r) ==
  CASE h[r].route = "create" ->
         [Response(201, TRUE, "created") EXCEPT
            !.news_id = h[r].newsId, !.status = h[r].finalStatus,
            !.requires_approval = h[r].requiresApproval]
    [] h[r].route = "update" ->
         [Response(200, TRUE, "updated") EXCEPT
            !.news_id = h[r].newsId, !.status = h[r].finalStatus,
            !.requires_approval = h[r].requiresApproval]
    [] h[r].route \in BulkRoutes ->
         [Response(200, TRUE, "Bulk operation completed") EXCEPT
            !.results = h[r].results]
    [] OTHER -> [Response(200, TRUE, "deleted") EXCEPT !.news_id = h[r].newsId]

\* COMMIT, then the success response.
Commit(r) ==
  /\ h[r].pc = "commit"
  /\ news' = CommittedNews(r)
  /\ rows' = CommittedRows(r)
  /\ audit' = CommittedAudit(r)
  /\ tx' = [tx EXCEPT ![r] = NoTx]
  /\ resp' = [resp EXCEPT ![r] = SuccessResponse(r)]
  /\ h' = [h EXCEPT ![r].pc = "finally"]
  /\ UNCHANGED <<formatting, admins, session, promo, surface, seen, schema, nextId, faults, started, held>>

\* The catch block: ROLLBACK, then the 500 response, whose body carries
\* error.message under "error" and, in the handlers that guard the ROLLBACK,
\* error.code under "code", whatever NODE_ENV is.  When the ROLLBACK itself
\* raises (the connection is gone and the server has dropped the transaction),
\* only a handler that guards it still answers.
Catch(r) ==
  /\ h[r].pc = "catch"
  /\ \E inject \in Inject :
       /\ faults' = Spend(inject)
       /\ tx' = [tx EXCEPT ![r] = IF inject THEN Lost ELSE NoTx]
       /\ resp' = [resp EXCEPT ![r] =
                     IF inject /\ ~GuardsRollback(h[r].route) THEN @
                     ELSE [Response(500, FALSE, "Internal server error") EXCEPT
                             !.error = IF GuardsRollback(h[r].route)
                                       THEN {"error", "code"} ELSE {"error"}]]
       /\ h' = [h EXCEPT ![r].pc = "finally",
                         ![r].failed = IF inject THEN @ \cup {"rollback"} ELSE @]
       /\ UNCHANGED <<formatting, admins, session, promo, surface, seen, schema, news, rows, audit, nextId, started, held>>

\* A handler that releases the connection after its response instead of in a
\* finally block.
ReleaseAfterResponse(r) ==
  /\ h[r].pc = "finally"
  /\ held' = [held EXCEPT ![r] = IF resp[r] = NoResp THEN @ ELSE FALSE]
  /\ h' = [h EXCEPT ![r].pc = "done"]
  /\ UNCHANGED <<formatting, admins, session, promo, surface, seen, schema, news, rows, audit, nextId, faults, started, tx, resp>>

\* finally: client.release().
Finally(r) ==
  /\ h[r].pc = "finally"
  /\ held' = [held EXCEPT ![r] = FALSE]
  /\ h' = [h EXCEPT ![r].pc = "done"]
  /\ UNCHANGED <<formatting, admins, session, promo, surface, seen, schema, news, rows, audit, nextId, faults, started, tx, resp>>

\* ------------------------------------------------------------------ surfaces
\* SQL NULL in a numeric or timestamp column of a promotion or of news.
Null == -1

\* A promotion row.  breaking_news has priority; pinned_news has position and
\* tier; both have starts_at, ends_at and manually_removed.  Times count half
\* hours.
Plain ==
  [priority |-> "none", position |-> Null, tier |-> "none", starts_at |-> 2,
   ends_at |-> Null, manually_removed |-> FALSE]

\* The promotion rows and the engagement counters of the initial articles:
\* columns that no handler of this repository writes.  The families vary what
\* the order, the eligibility and the score read.
Boards ==
  LET quiet == [views |-> 0, likes_count |-> 0, comments_count |-> 0,
                share_count |-> 0]
      busy == [views |-> 2, likes_count |-> 1, comments_count |-> 1,
               share_count |-> 1]
      plain == [breaking_news |-> [a \in ArticleIds |-> Plain],
                pinned_news |-> [a \in ArticleIds |-> Plain],
                engagement |-> [a \in ArticleIds |-> quiet]]
  IN [plain |-> {plain},
      order |->
        {[plain EXCEPT !.breaking_news[1].priority = x,
                       !.breaking_news[2].priority = y,
                       !.breaking_news[1].starts_at = s,
                       !.engagement[1] = e] :
           x \in {"urgent", "high", "medium", "low", "none"},
           y \in {"urgent", "high", "medium", "low", "none"},
           s \in 1..3, e \in {quiet, busy}},
      active |->
        {[plain EXCEPT !.breaking_news[1].ends_at = x,
                       !.breaking_news[1].manually_removed = y,
                       !.breaking_news[2].ends_at = z,
                       !.pinned_news[1].ends_at = x] :
           x \in {Null, 13, 61}, y \in BOOLEAN, z \in {Null, 13}},
      score |->
        {[plain EXCEPT !.engagement[1] =
                         [views |-> v, likes_count |-> l, comments_count |-> c,
                          share_count |-> sh]] :
           v \in {Null, 0, 1}, l \in {Null, 2}, c \in {0, 1}, sh \in {Null, 1}},
      pinned |->
        {[plain EXCEPT !.pinned_news[1].position = x,
                       !.pinned_news[2].position = y,
                       !.pinned_news[1].tier = t,
                       !.pinned_news[1].starts_at = s] :
           x \in {Null, 1, 2}, y \in {Null, 1},
           t \in {"gold", "silver", "bronze", "none"}, s \in 1..3}]

\* A read of a surface: its query string, the time its statements run at, what
\* its two statements returned and what it answered.
NoSurface ==
  [pc |-> "idle", which |-> "none", served |-> 0,
   q |-> [limit |-> Absent, page |-> Absent, category |-> Absent, now |-> 0],
   count |-> "pending", counted |-> {}, list |-> "pending", listed |-> <<>>,
   code |-> 0, success |-> FALSE, news |-> <<>>, alias |-> <<>>, per_page |-> 0,
   current_page |-> 0, total_items |-> 0, total_pages |-> 0, has_next |-> FALSE, has_prev |-> FALSE]

\* req.query: limit and page absent, "0", "-5", "20", "abc", "12abc", ...; the
\* category slug absent or the slug of category n; and the time of the read.
Queries ==
  LET plain == [limit |-> Absent, page |-> Absent, category |-> Absent, now |-> 3]
  IN {[plain EXCEPT !.limit = l] :
        l \in {Absent, Text, Prefixed(12), Num(-5), Num(0), Num(1), Num(20),
               Num(100), Num(101), Num(500)}}
     \cup {[plain EXCEPT !.limit = Num(1), !.page = p] :
             p \in {Absent, Text, Num(-5), Num(0), Num(1), Num(2), Num(3)}}
     \cup {[plain EXCEPT !.now = t] : t \in {2, 3, 7, 13, 25, 49, 61, 97, 120}}
     \cup {[plain EXCEPT !.category = [kind |-> "slug", n |-> c]] :
             c \in CategoryIds \cup {9}}

\* parseInt(req.query.x || fallback): the absent or empty parameter gives the
\* fallback, a text without leading digits gives NaN.
parseInt(v, fallback) ==
  CASE v.kind = "absent" -> [nan |-> FALSE, n |-> fallback]
    [] v.kind = "text" -> [nan |-> TRUE, n |-> 0]
    [] OTHER -> [nan |-> FALSE, n |-> v.n]

\* A paging whose offset counts the pages from zero.
PagingFromZero(q) ==
  LET max(lo, x) == IF x.nan \/ x.n >= lo THEN x ELSE [x EXCEPT !.n = lo]
      min(hi, x) == IF x.nan \/ x.n <= hi THEN x ELSE [x EXCEPT !.n = hi]
      page == max(1, parseInt(q.page, 1))
      limit == min(100, max(1, parseInt(q.limit, 50)))
  IN [page |-> page, limit |-> limit,
      offset |-> [nan |-> page.nan \/ limit.nan,
                  n |-> IF page.nan \/ limit.nan THEN 0
                        ELSE page.n * limit.n]]

\* page = Math.max(1, parseInt(page || '1'));
\* limit = Math.min(100, Math.max(1, parseInt(limit || '50')));
\* offset = (page - 1) * limit.  Math.max and Math.min of NaN are NaN.
Paging(q) ==
  LET max(lo, x) == IF x.nan \/ x.n >= lo THEN x ELSE [x EXCEPT !.n = lo]
      min(hi, x) == IF x.nan \/ x.n <= hi THEN x ELSE [x EXCEPT !.n = hi]
      page == max(1, parseInt(q.page, 1))
      limit == min(100, max(1, parseInt(q.limit, 50)))
  IN [page |-> page, limit |-> limit,
      offset |-> [nan |-> page.nan \/ limit.nan,
                  n |-> IF page.nan \/ limit.nan THEN 0
                        ELSE (page.n - 1) * limit.n]]

\* A WHERE clause that leaves the status out.
EligibleAnyStatus(which, q) ==
  {a \in ArticleIds :
     /\ news[a].exists
     /\ \E row \in rows : row.t = which /\ row.id = a
     /\ ~promo[which][a].manually_removed
     /\ promo[which][a].ends_at = Null \/ promo[which][a].ends_at > q.now}

\* FROM <promotions> INNER JOIN news [INNER JOIN news_categories, categories]
\* WHERE n.status = 'published' AND manually_removed = false
\*   AND (ends_at IS NULL OR ends_at > CURRENT_TIMESTAMP) [AND cat.slug = $3]:
\* the articles the committed tables hold at the time of the statement.
Eligible(which, q) ==
  {a \in ArticleIds :
     /\ news[a].exists /\ news[a].status = "published"
     /\ \E row \in rows : row.t = which /\ row.id = a
     /\ ~promo[which][a].manually_removed
     /\ promo[which][a].ends_at = Null \/ promo[which][a].ends_at > q.now
     /\ (which = "pinned_news" /\ q.category.kind # "absent")
          => \E row \in rows :
               row.t = "news_categories" /\ row.id = a /\ row.k = q.category.n}

\* An order in which the engagement comes first.
SortKeyByEngagement(which, a) ==
  <<0 - promo.engagement[a].views, promo[which][a].starts_at>>

\* The ORDER BY keys of a row, each ascending: DESC keys are negated and NULLS
\* LAST puts a flag before the position.
SortKey(which, a) ==
  LET p == promo[which][a]
  IN IF which = "breaking_news"
     THEN <<CASE p.priority = "urgent" -> 0 [] p.priority = "high" -> 1
              [] p.priority = "medium" -> 2 [] p.priority = "low" -> 3
              [] OTHER -> 4,
            0 - p.starts_at, 0 - news[a].published>>
     ELSE <<IF p.position = Null THEN 1 ELSE 0, p.position,
            CASE p.tier = "gold" -> 1 [] p.tier = "silver" -> 2
              [] p.tier = "bronze" -> 3 [] OTHER -> 4,
            0 - p.starts_at, 0 - news[a].published>>

\* The orders in which the statement may return the rows S: any order that
\* agrees with the ORDER BY keys.
Orderings(which, S) ==
  LET less(k, l) ==
        \E i \in 1..Len(k) : k[i] < l[i] /\ \A j \in 1..(i - 1) : k[j] = l[j]
  IN {sq \in [1..Cardinality(S) -> S] :
        /\ \A i, j \in 1..Cardinality(S) : sq[i] = sq[j] => i = j
        /\ \A i, j \in 1..Cardinality(S) :
             i < j => ~less(SortKey(which, sq[j]), SortKey(which, sq[i]))}

\* A score that counts every interaction once.
UnweightedScore(e, age) ==
  (e.views + e.likes_count + e.comments_count + e.share_count) * 10

\* (COALESCE(views, 0) * 1 + COALESCE(likes_count, 0) * 5 +
\*  COALESCE(comments_count, 0) * 10 + COALESCE(share_count, 0) * 15) *
\* CASE WHEN hours < 1 THEN 3.0 ... ELSE 0.2 END, in tenths; age is
\* NOW() - published_at in half hours.
trending_score(e, age) ==
  LET coalesce(v) == IF v = Null THEN 0 ELSE v
  IN (coalesce(e.views) * 1 + coalesce(e.likes_count) * 5 +
      coalesce(e.comments_count) * 10 + coalesce(e.share_count) * 15) *
     (IF age < 2 THEN 30 ELSE IF age < 6 THEN 20 ELSE IF age < 12 THEN 15
      ELSE IF age < 24 THEN 12 ELSE IF age < 48 THEN 10
      ELSE IF age < 96 THEN 5 ELSE 2)

\* PostgreSQL rejects a SELECT DISTINCT whose ORDER BY has an expression that is
\* not in the select list.  Only the pinned list is DISTINCT; its select list
\* has p.position, p.tier, p.starts_at and n.published_at, and its ORDER BY has
\* the expression CASE p.tier WHEN 'gold' THEN 1 ... END.
ListRejected(which) ==
  LET distinct == which = "pinned_news"
      selectList == {"n.news_id", "n.published_at", "p.position", "p.tier",
                     "p.starts_at", "p.ends_at", "hours_ago", "trending_score"}
      orderBy == IF which = "pinned_news"
                 THEN {"p.position", "CASE p.tier", "p.starts_at",
                       "n.published_at"}
                 ELSE {"CASE b.priority", "b.starts_at", "n.published_at"}
  IN distinct /\ ~(orderBy \subseteq selectList)

\* The pinned count statement with a category slug has the placeholder $3 in
\* its text and is sent with the one value [categorySlug]: the server rejects
\* a statement that is bound with fewer values than its text refers to.
CountRejected(which, q) ==
  LET filtered == which = "pinned_news" /\ q.category.kind # "absent"
      placeholders == IF filtered THEN 3 ELSE 0
      values == IF filtered THEN 1 ELSE 0
  IN placeholders > values

\* GET /: a read arrives.
SurfaceStart(queries) ==
  /\ surface.pc \in {"idle", "done"}
  /\ surface.served < MaxReads
  /\ \E which \in {"breaking_news", "pinned_news"}, q \in queries :
       surface' = [NoSurface EXCEPT !.pc = "query", !.which = which, !.q = q,
                                    !.served = surface.served + 1]
  /\ UNCHANGED <<formatting, admins, session, promo, seen, schema, news, rows, audit, nextId, faults, started,
                 h, tx, resp, held>>

\* The count statement, on a connection of the pool, outside any transaction.
SurfaceCount ==
  /\ surface.pc = "query" /\ surface.count = "pending"
  /\ \E inject \in Inject :
       /\ faults' = Spend(inject)
       /\ surface' =
            IF inject \/ CountRejected(surface.which, surface.q)
            THEN [surface EXCEPT !.count = "failed"]
            ELSE [surface EXCEPT !.count = "ok",
                                 !.counted = Eligible(surface.which, surface.q)]
  /\ UNCHANGED <<formatting, admins, session, promo, seen, schema, news, rows, audit, nextId, started, h, tx,
                 resp, held>>

\* The list statement, on another connection of the pool: LIMIT $1 OFFSET $2
\* of the ordered rows.  NaN is no value of a LIMIT or an OFFSET.
SurfaceList ==
  /\ surface.pc = "query" /\ surface.list = "pending"
  /\ \E inject \in Inject :
     LET pg == Paging(surface.q)
         S == Eligible(surface.which, surface.q)
     IN /\ faults' = Spend(inject)
        /\ IF inject \/ ListRejected(surface.which) \/ pg.limit.nan
              \/ pg.offset.nan
           THEN surface' = [surface EXCEPT !.list = "failed"]
           ELSE \E sq \in Orderings(surface.which, S) :
               surface' =
                 [surface EXCEPT
                    !.list = "ok",
                    !.listed =
                      [i \in 1..IF Cardinality(S) - pg.offset.n < 0 THEN 0
                                ELSE IF Cardinality(S) - pg.offset.n < pg.limit.n
                                THEN Cardinality(S) - pg.offset.n
                                ELSE pg.limit.n |->
                         [news_id |-> sq[pg.offset.n + i],
                          trending_score |->
                            trending_score(promo.engagement[sq[pg.offset.n + i]],
                                           surface.q.now -
                                             news[sq[pg.offset.n + i]].published)]]]
  /\ UNCHANGED <<formatting, admins, session, promo, seen, schema, news, rows, audit, nextId, started, h, tx,
                 resp, held>>

\* A handler whose failure answer still carries what the statement that did
\* return has found.
SurfaceRespondPartial ==
  /\ surface.pc = "query"
  /\ surface.count = "failed" \/ surface.list = "failed"
  /\ surface' = [surface EXCEPT
                   !.pc = "done", !.code = 500, !.success = FALSE,
                   !.news = surface.listed, !.alias = surface.listed,
                   !.current_page = 1,
                   !.per_page = 50, !.total_items = Cardinality(surface.counted),
                   !.total_pages = Cardinality(surface.counted),
                   !.has_next = surface.counted # {}]
  /\ UNCHANGED <<formatting, admins, session, promo, seen, schema, news, rows, audit, nextId, faults, started,
                 h, tx, resp, held>>

\* Promise.all settles: res.json with the rows and the pagination when both
\* statements returned; the catch block's 500 with empty lists, per_page 50 and
\* total_items 0 as soon as one of them failed.
SurfaceRespond ==
  /\ surface.pc = "query"
  /\ \/ /\ surface.count = "ok" /\ surface.list = "ok"
        /\ LET pg == Paging(surface.q)
               total == Cardinality(surface.counted)
               totalPages == (total + pg.limit.n - 1) \div pg.limit.n
           IN surface' = [surface EXCEPT
                            !.pc = "done", !.code = 200, !.success = TRUE,
                            !.news = surface.listed, !.alias = surface.listed,
                            !.current_page = pg.page.n,
                            !.per_page = pg.limit.n, !.total_items = total,
                            !.total_pages = totalPages,
                            !.has_next = pg.page.n < totalPages,
                            !.has_prev = pg.page.n > 1]
     \/ /\ surface.count = "failed" \/ surface.list = "failed"
        /\ surface' = [surface EXCEPT
                         !.pc = "done", !.code = 500, !.success = FALSE,
                         !.news = <<>>, !.alias = <<>>,
                         !.current_page = 1, !.per_page = 50,
                         !.total_items = 0, !.total_pages = 0,
                         !.has_next = FALSE, !.has_prev = FALSE]
  /\ UNCHANGED <<formatting, admins, session, promo, seen, schema, news, rows, audit, nextId, faults, started,
                 h, tx, resp, held>>

\* ------------------------------------------------------------------ formatting
\* The six replacements of processContentFormatting in the order of its chain:
\* the opening tag, the closing tag and the HTML written in their places.  A
\* body is a sequence of tokens: a tag, a letter or a line break.
Markers ==
  << [open |-> "[QUOTE sayer=\"s\"]", close |-> "[/QUOTE]",
      before |-> "<blockquote class=\"news-large-quote\" data-sayer=\"s\"><p>",
      after |-> "</p><footer>- s</footer></blockquote>"],
     [open |-> "[QUOTE]", close |-> "[/QUOTE]",
      before |-> "<blockquote class=\"news-large-quote\">",
      after |-> "</blockquote>"],
     [open |-> "[HIGHLIGHT]", close |-> "[/HIGHLIGHT]",
      before |-> "<span class=\"news-highlight\">", after |-> "</span>"],
     [open |-> "[BOLD]", close |-> "[/BOLD]",
      before |-> "<strong>", after |-> "</strong>"],
     [open |-> "[ITALIC]", close |-> "[/ITALIC]",
      before |-> "<em>", after |-> "</em>"],
     [open |-> "[HEADING]", close |-> "[/HEADING]",
      before |-> "<h3 class=\"content-heading\">", after |-> "</h3>"] >>

\* content.replace(/open(.*?)close/gs, before + "$1" + after): from the left,
\* every opening tag that has a closing tag after it is matched up to the
\* nearest one, line breaks included; the search goes on behind the match.
Replace(k, content) ==
  LET mk == Markers[k]
      RECURSIVE Scan(_)
      Scan(i) ==
        IF i > Len(content) THEN <<>>
        ELSE LET closers == {j \in (i + 1)..Len(content) : content[j] = mk.close}
             IN IF content[i] = mk.open /\ closers # {}
                THEN LET j == CHOOSE x \in closers : \A y \in closers : x <= y
                     IN <<mk.before>> \o SubSeq(content, i + 1, j - 1)
                          \o <<mk.after>> \o Scan(j + 1)
                ELSE <<content[i]>> \o Scan(i + 1)
  IN Scan(1)

\* A chain that replaces the bare quotes before the attributed ones.
processContentFormattingBareFirst(content) ==
  Replace(6, Replace(5, Replace(4, Replace(3, Replace(1, Replace(2, content))))))

\* processedContent: the chain of the six replacements.
processContentFormatting(content) ==
  Replace(6, Replace(5, Replace(4, Replace(3, Replace(2, Replace(1, content))))))

\* A raw body on which the replacements are carried out one at a time, in any
\* order: the body so far, the replacements done, and whether the bare quotes
\* were replaced while the attributed ones were still to come.
NoPage == [raw |-> <<>>, body |-> <<>>, applied |-> {}, bareFirst |-> FALSE]

Format(k) ==
  /\ k \notin formatting.applied
  /\ formatting' = [formatting EXCEPT !.body = Replace(k, @), !.applied = @ \cup {k},
                          !.bareFirst = @ \/ (k = 2 /\ 1 \notin formatting.applied)]
  /\ UNCHANGED <<admins, session, promo, surface, seen, schema, news, rows, audit,
                 nextId, faults, started, h, tx, resp, held>>

\* ------------------------------------------------------------------ sessions
\* The session store is taken to work: regenerate, destroy and the save at
\* the end of a response succeed.  The statements on table admins may fail
\* like any other statement.

\* can_hard_delete: ['super_admin', 'admin'].includes(normalizedRole)
can_hard_delete(role) == role \in {"super_admin", "admin"}

\* SELECT ... FROM admins WHERE admin_id = $1 AND status = 'active' LIMIT 1
ActiveAdmin(a) == {x \in AdminIds : x = a /\ admins[x].status = "active"}

\* The response of a request that ends without a handler's connection.
Answer(r, route, adminId, code, success, message) ==
  /\ resp' = [resp EXCEPT ![r] = Response(code, success, message)]
  /\ h' = [h EXCEPT ![r] = [Idle EXCEPT !.route = route, !.pc = "done",
                                           !.ord = started + 1,
                                           !.adminId = adminId]]

\* A guard that trusts the session's adminId without reading table admins.
TrustSession(r, route, quota) ==
  /\ Free(r, quota)
  /\ started' = started + 1
  /\ IF session.adminId = 0
     THEN Answer(r, route, 0, 401, FALSE, "Authentication required")
     ELSE /\ resp' = [resp EXCEPT ![r] = NoResp]
          /\ h' = [h EXCEPT ![r] =
                     [Idle EXCEPT !.route = route, !.pc = "next",
                                  !.ord = started + 1,
                                  !.adminId = session.adminId,
                                  !.in.role = admins[session.adminId].role]]
  /\ UNCHANGED <<formatting, admins, session, promo, surface, seen, schema, news, rows, audit,
                 nextId, faults, tx, held>>

\* The middleware in front of a route: 401 without a session adminId; 401 and
\* the session destroyed when no active admin row matches; 500 when the lookup
\* raises; otherwise req.adminId and req.userRole are set and next() is called.
requireAdminAuth(r, route, quota) ==
  /\ Free(r, quota)
  /\ started' = started + 1
  /\ \E inject \in Inject :
       LET adminId == session.adminId IN
       IF adminId = 0
       THEN /\ ~inject
            /\ Answer(r, route, 0, 401, FALSE, "Authentication required")
            /\ UNCHANGED <<formatting, session, faults>>
       ELSE IF inject
       THEN /\ Answer(r, route, 0, 500, FALSE, "Authentication failed")
            /\ faults' = Spend(inject)
            /\ UNCHANGED session
       ELSE IF ActiveAdmin(adminId) = {}
       THEN /\ session' = NoSession
            /\ Answer(r, route, 0, 401, FALSE, "Invalid or inactive admin account")
            /\ UNCHANGED faults
       ELSE /\ resp' = [resp EXCEPT ![r] = NoResp]
            /\ h' = [h EXCEPT ![r] =
                       [Idle EXCEPT !.route = route, !.pc = "next",
                                    !.ord = started + 1, !.adminId = adminId,
                                    !.in.role = admins[adminId].role]]
            /\ UNCHANGED <<formatting, session, faults>>
  /\ UNCHANGED <<formatting, admins, promo, surface, seen, schema, news, rows, audit, nextId,
                 tx, held>>

\* next(): the handler behind the guard takes its connection and issues BEGIN.
GuardedStart(r) ==
  /\ h[r].pc = "next"
  /\ held' = [held EXCEPT ![r] = TRUE]
  /\ tx' = [tx EXCEPT ![r] = [NoTx EXCEPT !.st = "open"]]
  /\ h' = [h EXCEPT ![r].pc = "begun", ![r].pre = Snapshot]
  /\ UNCHANGED <<formatting, admins, session, promo, surface, seen, schema, news, rows, audit,
                 nextId, faults, started, resp>>

\* req.body of a login: the identifier is absent (0), that of admin a, or one
\* no row has; the password is absent, shorter than six characters, not the
\* one of the row's hash, or the right one.
Identifiers == 0..(NumAdmins + 1)
Passwords == {"absent", "short", "wrong", "right"}

\* POST /login up to the password check: 400 for a missing or short field, 401
\* when no active row has the identifier or bcrypt.compare says no, 500 when
\* the lookup raises.
LoginCheck(r, quota) ==
  /\ Free(r, quota)
  /\ started' = started + 1
  /\ \E identifier \in Identifiers, password \in Passwords, inject \in Inject :
       /\ faults' = Spend(inject)
       /\ IF identifier = 0 \/ password = "absent"
          THEN /\ ~inject
               /\ Answer(r, "login", 0, 400, FALSE,
                         "Username/email and password are required")
          ELSE IF password = "short"
          THEN /\ ~inject
               /\ Answer(r, "login", 0, 400, FALSE,
                         "Password must be at least 6 characters")
          ELSE IF inject
          THEN Answer(r, "login", 0, 500, FALSE, "Internal server error")
          ELSE IF ActiveAdmin(identifier) = {} \/ password # "right"
          THEN Answer(r, "login", 0, 401, FALSE, "Invalid credentials")
          ELSE /\ resp' = [resp EXCEPT ![r] = NoResp]
               /\ h' = [h EXCEPT ![r] =
                          [Idle EXCEPT !.route = "login", !.pc = "regenerate",
                                       !.ord = started + 1,
                                       !.adminId = identifier]]
  /\ UNCHANGED <<formatting, admins, session, promo, surface, seen, schema, news, rows, audit,
                 nextId, tx, held>>

\* req.session.regenerate: the new session gets adminId, then UPDATE admins SET
\* last_login; 200 when it returns, 500 when it raises.  The session is saved
\* with the response either way.
LoginSession(r) ==
  /\ h[r].route = "login" /\ h[r].pc = "regenerate"
  /\ session' = [adminId |-> h[r].adminId]
  /\ \E inject \in Inject :
       /\ faults' = Spend(inject)
       /\ resp' = [resp EXCEPT ![r] =
                     IF inject THEN Response(500, FALSE, "Login processing failed")
                     ELSE Response(200, TRUE, "Login successful")]
       /\ h' = [h EXCEPT ![r].pc = "done",
                         ![r].failed = IF inject THEN {"last_login"} ELSE {}]
  /\ UNCHANGED <<formatting, admins, promo, surface, seen, schema, news, rows, audit, nextId,
                 started, tx, held>>

\* POST /logout: req.session.destroy, then 200.
Logout(r, quota) ==
  /\ Free(r, quota)
  /\ started' = started + 1
  /\ session' = NoSession
  /\ Answer(r, "logout", 0, 200, TRUE, "Logout successful")
  /\ UNCHANGED <<formatting, admins, promo, surface, seen, schema, news, rows, audit, nextId,
                 faults, tx, held>>

\* GET /verify: the guard's three answers, and 200 with the admin's data.
Verify(r, quota) ==
  /\ Free(r, quota)
  /\ started' = started + 1
  /\ \E inject \in Inject :
       LET adminId == session.adminId IN
       IF adminId = 0
       THEN /\ ~inject
            /\ Answer(r, "verify", 0, 401, FALSE, "No active session found")
            /\ UNCHANGED <<formatting, session, faults>>
       ELSE IF inject
       THEN /\ Answer(r, "verify", 0, 500, FALSE, "Session verification failed")
            /\ faults' = Spend(inject)
            /\ UNCHANGED session
       ELSE IF ActiveAdmin(adminId) = {}
       THEN /\ session' = NoSession
            /\ Answer(r, "verify", 0, 401, FALSE, "Invalid or expired session")
            /\ UNCHANGED faults
       ELSE /\ Answer(r, "verify", adminId, 200, TRUE, "Session verified")
            /\ UNCHANGED <<formatting, session, faults>>
  /\ UNCHANGED <<formatting, admins, promo, surface, seen, schema, news, rows, audit, nextId,
                 tx, held>>

\* Another administrator suspends admin a or removes the row.
Deactivate(a) ==
  /\ admins[a].status = "active"
  /\ \E s \in {"suspended", "removed"} :
       admins' = [admins EXCEPT ![a].status = s]
  /\ UNCHANGED <<formatting, session, promo, surface, seen, schema, news, rows, audit, nextId,
                 faults, started, h, tx, resp, held>>

\* ------------------------------------------------------------------ specification
\* The deployment: one of two dependent tables may be absent, the foreign keys to
\* news are undeclared, declared plain, or declared ON DELETE CASCADE, and the
\* category links are unique per article or not.
Schemas ==
  {[missing |-> m, fk |-> f, uniqueLinks |-> u] :
     m \in {{}, {"news_videos"}, {"post_promotions"}},
     f \in {"none", "restrict", "cascade"}, u \in BOOLEAN}

InitialArticle ==
  [exists |-> TRUE, status |-> "published", primary |-> 3, category |-> 3,
   quotes |-> "none", image |-> 0, published |-> 1, slug |-> <<>>]

\* Every initial article has one row in each dependent table that exists; its
\* category link is the primary one.
InitialRows(sc) ==
  {DepRow(t, a, IF t = "news_categories" THEN 3 ELSE 1, t = "news_categories", 1) :
     t \in DependentTables \ sc.missing, a \in 1..NumInitial}

\* The tables and the slots before the first request.
InitTables(schemas, budget, boards) ==
  /\ schema \in schemas
  /\ promo \in boards
  /\ surface = NoSurface
  /\ news = [a \in ArticleIds |->
              IF a <= NumInitial
              THEN [InitialArticle EXCEPT !.published = a, !.slug = <<"t", a>>]
              ELSE NoRow]
  /\ rows = InitialRows(schema)
  /\ audit = {}
  /\ nextId = NumInitial + 1
  /\ faults = budget
  /\ started = 0
  /\ h = [r \in ConcurrentSlots |-> Idle]
  /\ tx = [r \in ConcurrentSlots |-> NoTx]
  /\ resp = [r \in ConcurrentSlots |-> NoResp]
  /\ held = [r \in ConcurrentSlots |-> FALSE]
  /\ seen = NoRead

\* A deployment whose admins are all active editors, none of them logged in.
InitWith(schemas, budget, boards) ==
  /\ InitTables(schemas, budget, boards)
  /\ admins = [a \in AdminIds |-> [status |-> "active", role |-> "editor"]]
  /\ session = NoSession
  /\ formatting = NoPage

\* The schemas that differ for a create or an update.
WriteSchemas == {sc \in Schemas : sc.missing = {} /\ sc.fk # "cascade"}

Init == InitWith(WriteSchemas, MaxFaults, Boards.plain)

Next ==
  \E r \in Slots :
    \/ CreateStart(r, MaxRequests)
    \/ CreateValidate(r, Forms)
    \/ CreateInsertNews(r, GateOptions)
    \/ UpdateStart(r, MaxRequests)
    \/ UpdateCheck(r, ArticleIds)
    \/ UpdateValidate(r, Forms)
    \/ UpdateNewsRow(r, GateOptions)
    \/ UpdateDeleteCategories(r)
    \/ WriteInsertCategory(r)
    \/ WriteQuotes(r, MediaOptions)
    \/ UpdateDeleteSocial(r)
    \/ WriteSocial(r)
    \/ WriteIngest(r)
    \/ WriteInsertImage(r)
    \/ WriteCover(r)
    \/ DeleteStart(r, "delete_post", MaxRequests)
    \/ DeleteCheck(r, IdValues)
    \/ DeleteDependent(r)
    \/ DeleteRoot(r)
    \/ LogActivity(r)
    \/ Commit(r)
    \/ Catch(r)
    \/ Finally(r)

Spec == Init /\ [][Next]_vars

\* ------------------------------------------------------------------ readers
\* The articles without a primary category link among the rows S.
Bare(N, S) == {a \in ArticleIds : N[a].exists /\ PrimaryLinks(S, a) = {}}

\* Some open transaction holds an article without a primary category link.
Midway ==
  \E r \in ConcurrentSlots :
    tx[r].st = "open" /\ Bare([a \in ArticleIds |-> TxNews(r, a)], TxRows(r)) # {}

\* A surface read: one SELECT over news joined with news_categories on the
\* pool, outside any transaction; it returns what is committed.
Read ==
  /\ seen.reads < MaxReads
  /\ seen' = [reads |-> seen.reads + 1,
              bare |-> seen.bare \cup Bare(news, rows),
              midway |-> seen.midway \/ Midway]
  /\ UNCHANGED <<formatting, admins, session, promo, surface, schema, news, rows, audit, nextId, faults,
                 started, h, tx, resp,
                 held>>

\* Two requests at a time, create, update and single delete, with reads.
ConcurrentSchemas == {sc \in Schemas : sc.missing = {} /\ ~sc.uniqueLinks}
ConcurrentIds == {1, NumInitial + 1}
ConcurrentGate == {[status |-> "draft", role |-> "admin"]}
ConcurrentMedia == {[social |-> AbsentList, files |-> <<>>]}

InitConcurrent == InitWith(ConcurrentSchemas, ConcurrentFaults, Boards.plain)

NextConcurrent ==
  \/ Read
  \/ \E r \in ConcurrentSlots :
       \/ CreateStart(r, MaxSequence)
       \/ CreateValidate(r, SequenceForms)
       \/ CreateInsertNews(r, ConcurrentGate)
       \/ UpdateStart(r, MaxSequence)
       \/ UpdateCheck(r, ConcurrentIds)
       \/ UpdateValidate(r, SequenceForms)
       \/ UpdateNewsRow(r, ConcurrentGate)
       \/ UpdateDeleteCategories(r)
       \/ WriteInsertCategory(r)
       \/ WriteQuotes(r, ConcurrentMedia)
       \/ UpdateDeleteSocial(r)
       \/ \E route \in SingleRoutes : DeleteStart(r, route, MaxSequence)
       \/ DeleteCheck(r, {Num(a) : a \in ConcurrentIds})
       \/ DeleteImages(r)
       \/ DeleteDependent(r)
       \/ DeleteRoot(r)
       \/ LogActivity(r)
       \/ Commit(r)
       \/ Catch(r)
       \/ Finally(r)

SpecConcurrent == InitConcurrent /\ [][NextConcurrent]_vars

\* Creates and updates one after another, each as draft or published, by a
\* role that may publish directly or one that may not, with or without an
\* uploaded image.
SequenceGate ==
  {[status |-> st, role |-> ro] :
     st \in {"draft", "published"}, ro \in {"admin", "moderator"}}

NextSequence ==
  \E r \in Slots :
    \/ nextId \in ArticleIds /\ CreateStart(r, SequenceRequests)
    \/ CreateValidate(r, SequenceForms)
    \/ CreateInsertNews(r, SequenceGate)
    \/ UpdateStart(r, SequenceRequests)
    \/ UpdateCheck(r, ConcurrentIds)
    \/ UpdateValidate(r, SequenceForms)
    \/ UpdateNewsRow(r, SequenceGate)
    \/ UpdateDeleteCategories(r)
    \/ WriteInsertCategory(r)
    \/ WriteQuotes(r, {o \in MediaOptions :
                         o.social = AbsentList /\ o.files \in {<<>>, <<FALSE>>}})
    \/ UpdateDeleteSocial(r)
    \/ WriteIngest(r)
    \/ WriteInsertImage(r)
    \/ WriteCover(r)
    \/ LogActivity(r)
    \/ Commit(r)
    \/ Catch(r)
    \/ Finally(r)

SpecSequence == InitConcurrent /\ [][NextSequence]_vars

\* Creates whose raw body is any sequence of letters, blanks and quote tags.
Bodies ==
  UNION {[1..n -> {"a", " ", "[QUOTE]", "[QUOTE sayer=\"s\"]", "[/QUOTE]"}] :
           n \in 0..MaxBody}

NextQuotes ==
  \E r \in Slots :
    \/ CreateStart(r, MaxRequests)
    \/ CreateValidate(r, {[f EXCEPT !.content = b] :
                            f \in SequenceForms, b \in Bodies})
    \/ CreateInsertNews(r, ConcurrentGate)
    \/ WriteInsertCategory(r)
    \/ WriteQuotes(r, ConcurrentMedia)
    \/ LogActivity(r)
    \/ Commit(r)
    \/ Catch(r)
    \/ Finally(r)

SpecQuotes ==
  /\ InitWith({sc \in ConcurrentSchemas : sc.fk = "none"}, ConcurrentFaults,
              Boards.plain)
  /\ [][NextQuotes]_vars

\* One browser and its session: logins, logouts, verifications and deletes of
\* the posts router behind the guard, one request after another, while admins
\* of any role may be suspended or removed.
AdminRows == {[status |-> s, role |-> ro] : s \in {"active", "suspended"}, ro \in Roles}

NextAuth ==
  \/ \E r \in Slots :
       \/ LoginCheck(r, AuthRequests)
       \/ LoginSession(r)
       \/ Logout(r, AuthRequests)
       \/ Verify(r, AuthRequests)
       \/ requireAdminAuth(r, "delete_post", AuthRequests)
       \/ GuardedStart(r)
       \/ DeleteCheck(r, {Num(1), Num(NumInitial + 1)})
       \/ DeleteDependent(r)
       \/ DeleteRoot(r)
       \/ LogActivity(r)
       \/ Commit(r)
       \/ Catch(r)
       \/ Finally(r)
  \/ \E a \in AdminIds : Deactivate(a)

InitAuth ==
  /\ InitTables({sc \in WriteSchemas : sc.fk = "none" /\ ~sc.uniqueLinks},
                DeleteFaults, Boards.plain)
  /\ admins \in [AdminIds -> AdminRows]
  /\ session = NoSession
  /\ formatting = NoPage

SpecAuth == InitAuth /\ [][NextAuth]_vars

\* Raw bodies of up to MaxBody tokens: letters, line breaks, both kinds of
\* quote, bold and heading tags, balanced or not; highlight and italic tags do
\* not occur and their replacements leave the body as it is.
FormatBodies ==
  UNION {[1..n -> {"a", "\n", "[QUOTE]", "[QUOTE sayer=\"s\"]", "[/QUOTE]",
                   "[BOLD]", "[/BOLD]", "[HEADING]", "[/HEADING]"}] :
           n \in 0..MaxBody}

InitFormat ==
  /\ InitTables({sc \in WriteSchemas : sc.fk = "none" /\ ~sc.uniqueLinks}, 0,
                Boards.plain)
  /\ admins = [a \in AdminIds |-> [status |-> "active", role |-> "editor"]]
  /\ session = NoSession
  /\ formatting \in {[NoPage EXCEPT !.raw = b, !.body = b] : b \in FormatBodies}

NextFormat == \E k \in 1..6 : Format(k)

SpecFormat == InitFormat /\ [][NextFormat]_vars

\* The delete handlers, one request at a time, on every schema.
DeleteSchemas == {sc \in Schemas : ~sc.uniqueLinks}

InitDelete == InitWith(DeleteSchemas, DeleteFaults, Boards.plain)

NextDelete ==
  \E r \in Slots :
    \/ \E route \in SingleRoutes : DeleteStart(r, route, MaxRequests)
    \/ DeleteCheck(r, IdValues)
    \/ DeleteImages(r)
    \/ DeleteDependent(r)
    \/ DeleteRoot(r)
    \/ \E route \in BulkRoutes : BulkStart(r, route, MaxRequests)
    \/ BulkValidate(r, BulkLists)
    \/ BulkCheck(r)
    \/ LogActivity(r)
    \/ Commit(r)
    \/ Catch(r)
    \/ Finally(r)

SpecDelete == InitDelete /\ [][NextDelete]_vars

\* Every handler that takes a pool connection, one request at a time.  A
\* request may arrive or not; once it has its connection, each awaited
\* statement is answered (with a result or an error) and the handler goes on.
Steps(r) ==
  \/ CreateValidate(r, SequenceForms)
  \/ CreateInsertNews(r, ConcurrentGate)
  \/ UpdateCheck(r, ConcurrentIds)
  \/ UpdateValidate(r, SequenceForms)
  \/ UpdateNewsRow(r, ConcurrentGate)
  \/ UpdateDeleteCategories(r)
  \/ WriteInsertCategory(r)
  \/ WriteQuotes(r, ConcurrentMedia)
  \/ UpdateDeleteSocial(r)
  \/ DeleteCheck(r, IdValues)
  \/ DeleteImages(r)
  \/ DeleteDependent(r)
  \/ DeleteRoot(r)
  \/ BulkValidate(r, BulkLists)
  \/ BulkCheck(r)
  \/ LogActivity(r)
  \/ Commit(r)
  \/ Catch(r)
  \/ Finally(r)

NextRelease ==
  \E r \in Slots :
    \/ CreateStart(r, MaxRequests)
    \/ UpdateStart(r, MaxRequests)
    \/ \E route \in SingleRoutes : DeleteStart(r, route, MaxRequests)
    \/ \E route \in BulkRoutes : BulkStart(r, route, MaxRequests)
    \/ Steps(r)

SpecRelease ==
  /\ InitWith(DeleteSchemas, MaxFaults, Boards.plain)
  /\ [][NextRelease]_vars
  /\ \A r \in Slots : WF_vars(Steps(r))

\* The surfaces alone: every query on every board; the environment may fail
\* one statement of a read.
NextSurface ==
  \/ SurfaceStart(Queries)
  \/ SurfaceCount
  \/ SurfaceList
  \/ SurfaceRespond

SpecSurface ==
  /\ InitWith({sc \in WriteSchemas : sc.fk = "none" /\ ~sc.uniqueLinks}, MaxReads,
              Boards.order \cup Boards.active \cup Boards.score \cup Boards.pinned)
  /\ [][NextSurface]_vars

\* Two updates of article 1 in flight together, each with its own categories,
\* primary category, content, status and social links.
NextWriters ==
  \E r \in ConcurrentSlots :
    \/ UpdateStart(r, MaxSequence)
    \/ UpdateCheck(r, {1})
    \/ UpdateValidate(r, {[f EXCEPT !.content = c] :
                            f \in SequenceForms, c \in {<<"a">>, <<"[QUOTE]", "a", "[/QUOTE]">>}})
    \/ UpdateNewsRow(r, {o \in SequenceGate : o.role = "admin"})
    \/ UpdateDeleteCategories(r)
    \/ WriteInsertCategory(r)
    \/ WriteQuotes(r, {[social |-> so, files |-> <<>>] :
                         so \in {AbsentList, Array(<<"url">>)}})
    \/ UpdateDeleteSocial(r)
    \/ WriteSocial(r)
    \/ LogActivity(r)
    \/ Commit(r)
    \/ Catch(r)
    \/ Finally(r)

SpecWriters ==
  /\ InitWith({sc \in ConcurrentSchemas : sc.fk = "none"}, ConcurrentFaults,
              Boards.plain)
  /\ [][NextWriters]_vars

\* A surface read while an update or a delete of a promoted article is in
\* flight.
NextRace ==
  \/ SurfaceStart({q \in Queries : /\ q.limit = Absent /\ q.category = Absent
                                    /\ q.now \in {3, 13, 61}})
  \/ SurfaceCount
  \/ SurfaceList
  \/ SurfaceRespond
  \/ \E r \in Slots :
       \/ UpdateStart(r, MaxRequests)
       \/ UpdateCheck(r, {1})
       \/ UpdateValidate(r, SequenceForms)
       \/ UpdateNewsRow(r, SequenceGate)
       \/ UpdateDeleteCategories(r)
       \/ WriteInsertCategory(r)
       \/ WriteQuotes(r, ConcurrentMedia)
       \/ UpdateDeleteSocial(r)
       \/ DeleteStart(r, "delete_post", MaxRequests)
       \/ DeleteCheck(r, {Num(1)})
       \/ DeleteDependent(r)
       \/ DeleteRoot(r)
       \/ LogActivity(r)
       \/ Commit(r)
       \/ Catch(r)
       \/ Finally(r)

SpecRace ==
  /\ InitWith(ConcurrentSchemas, ConcurrentFaults, Boards.active)
  /\ [][NextRace]_vars

\* ------------------------------------------------------------------ claims
Finished(r, routes) == h[r].pc = "done" /\ h[r].route \in routes
Unchanged(r) ==
  /\ news = h[r].pre.news /\ rows = h[r].pre.rows /\ audit = h[r].pre.audit
\* The statements of create and update that write the article, its category
\* links, quotes, social embeds and media.
RaisingStatements ==
  {"news", "delete_cats", "category", "quotes", "delete_social",
   "social", "ingest", "image", "cover"}

\* C1 (as claimed): a create or update in which one of its statements failed
\* after BEGIN ends rolled back, answered with HTTP 500 and success=false, and
\* with no row of the request in any table.
C1_FailureRollsBackAndAnswers500 ==
  \A r \in Slots :
    Finished(r, {"create", "update"}) /\ h[r].failed \cap RaisingStatements # {}
      => /\ resp[r].code = 500 /\ ~resp[r].success
         /\ tx[r].st \in {"idle", "lost"}
         /\ Unchanged(r)

\* C2: the request bodies the claim calls invalid.  A value such as "7abc" is
\* read as 7 by parseInt and counts as that number.
C2_Invalid(in) ==
  \/ in.title = "" \/ in.content = <<>>
  \/ in.cats.kind = "absent" \/ in.primary.kind = "absent"
  \/ in.author.kind \in {"absent", "text"} \/ in.author.n = 0
  \/ in.cats.kind # "array" \/ Len(in.cats.a) = 0
  \/ in.primary.kind = "text" \/ in.primary.n = 0
  \/ \A j \in 1..Len(in.cats.a) : in.cats.a[j] # in.primary.n

C3_Expected(status, role) ==
  IF status = "published" /\ role \notin {"super_admin", "admin", "editor"}
  THEN [status |-> "pending_approval", requires_approval |-> TRUE]
  ELSE [status |-> status, requires_approval |-> FALSE]

C4_ExactlyOnePrimaryLink ==
  \A r \in Slots :
    Finished(r, {"create"}) /\ resp[r].code = 201 /\ news[h[r].newsId].exists
      => /\ Cardinality(PrimaryLinks(rows, h[r].newsId)) = 1
         /\ \A x \in PrimaryLinks(rows, h[r].newsId) : x.k = h[r].in.primary.n

\* C5: in every committed state every article has a category link flagged
\* is_primary (so at least one link), and no read, whenever it ran, returned an
\* article without one.
C5_ArticlesKeepPrimaryLink ==
  Bare(news, rows) = {} /\ seen.bare = {}

C5_Witness ==
  /\ seen.reads > 0 /\ seen.midway /\ seen.bare = {}
  /\ \E r \in ConcurrentSlots :
       /\ Finished(r, {"update"}) /\ resp[r].success
       /\ news[h[r].newsId].exists /\ news[h[r].newsId].primary = 7

\* C11: in every step, an article that stays keeps a published_at that was
\* set; a published_at that becomes set does so in a write that leaves the
\* status 'published'; and an article whose status is 'published' has it set.
C11_Step ==
  \A a \in ArticleIds :
    news'[a].exists =>
      /\ news[a].exists /\ news[a].published # 0
           => news'[a].published = news[a].published
      /\ news[a].published = 0 /\ news'[a].published # 0
           => news'[a].status = "published"
      /\ news'[a].status = "published" => news'[a].published # 0

C11_PublishedAtSetOnce == [][C11_Step]_vars

C11_Witness ==
  \E r \in Slots :
    /\ Finished(r, {"update"}) /\ resp[r].success
    /\ h[r].in.status = "published" /\ resp[r].status = "published"
    /\ news[h[r].newsId].published > NumInitial
    /\ news[h[r].newsId].published # Now(r)

\* C12: a connection is checked out exactly while its request is between
\* pool.connect() and the end of the handler; it is given back only by the
\* handler's last step, on whatever path the handler got there; and every
\* connection that is checked out is given back.
C12_ReleaseStep ==
  \A r \in Slots :
    held[r] /\ ~held'[r] => h[r].pc = "finally" /\ h'[r].pc = "done"

C12_ConnectionReleasedOnce ==
  /\ [](\A r \in Slots : held[r] <=> h[r].pc \notin {"idle", "done"})
  /\ [][C12_ReleaseStep]_vars
  /\ \A r \in Slots : held[r] ~> (~held[r] /\ h[r].pc = "done")

C12_Witness ==
  \E r \in Slots :
    /\ h[r].pc = "done" /\ ~held[r]
    /\ "rollback" \in h[r].failed /\ resp[r] = NoResp

\* C13 (as claimed): a breaking read that answered 200 with an unfilled first
\* page lists as many articles as its total_items says, and these are the
\* eligible articles of the tables as they were committed at one moment: the
\* ones its count statement saw.
C13_ReadSeesOneCommittedState ==
  (/\ surface.pc = "done" /\ surface.code = 200
   /\ surface.which = "breaking_news"
   /\ Paging(surface.q).offset.n = 0
   /\ surface.total_items <= surface.per_page)
    => /\ Len(surface.news) = surface.total_items
       /\ {surface.news[i].news_id : i \in 1..Len(surface.news)}
            = surface.counted

\* C15: every article a statement of a surface read counts or returns is, in
\* the tables as committed when the statement runs, published and promoted by
\* a row that is not manually removed and has not ended at the time of the
\* read; the response lists and counts only those.
C15_Shown(which, a, now) ==
  /\ news[a].exists /\ news[a].status = "published"
  /\ \E row \in rows : row.t = which /\ row.id = a
  /\ promo[which][a].manually_removed = FALSE
  /\ promo[which][a].ends_at # Null => promo[which][a].ends_at > now

C15_Step ==
  /\ surface.count = "pending" /\ surface'.count = "ok"
       => \A a \in surface'.counted :
            C15_Shown(surface.which, a, surface.q.now)
  /\ surface.list = "pending" /\ surface'.list = "ok"
       => \A i \in 1..Len(surface'.listed) :
            C15_Shown(surface.which, surface'.listed[i].news_id, surface.q.now)
  /\ surface'.pc = "done"
       => /\ surface'.total_items <= Cardinality(surface'.counted)
          /\ \A i \in 1..Len(surface'.news) :
               \E j \in 1..Len(surface'.listed) :
                 surface'.news[i] = surface'.listed[j]

C15_OnlyEligibleArticlesAppear == [][C15_Step]_vars

C15_Witness ==
  /\ surface.pc = "done" /\ surface.code = 200
  /\ surface.total_items = 1 /\ Len(surface.news) = 1
  /\ \E a \in 1..NumInitial :
       /\ news[a].exists /\ news[a].status # "published"
       /\ surface.news[1].news_id # a
       /\ a \notin surface.counted

\* C16: the breaking surface lists the eligible articles with the more urgent
\* priority first (urgent, high, medium, low, then unset), among equal
\* priorities the later promotion start first, among equal starts the later
\* publish time first, whatever their trending scores.
C16_Before(a, b) ==
  LET tier(x) ==
        LET named == {i \in 1..4 :
                        <<"urgent", "high", "medium", "low">>[i] =
                          promo.breaking_news[x].priority}
        IN IF named = {} THEN 5 ELSE CHOOSE i \in named : TRUE
      start(x) == promo.breaking_news[x].starts_at
  IN \/ tier(a) < tier(b)
     \/ tier(a) = tier(b) /\ start(a) > start(b)
     \/ tier(a) = tier(b) /\ start(a) = start(b)
          /\ news[a].published > news[b].published

C16_BreakingOrder ==
  (surface.pc = "done" /\ surface.code = 200 /\ surface.which = "breaking_news")
    => /\ \A i, j \in 1..Len(surface.news) :
            i < j => C16_Before(surface.news[i].news_id, surface.news[j].news_id)
       /\ Paging(surface.q).offset.n = 0 /\ surface.total_items <= surface.per_page
            => Len(surface.news) = surface.total_items

C16_Witness ==
  /\ surface.pc = "done" /\ surface.code = 200 /\ surface.which = "breaking_news"
  /\ Len(surface.news) = 2
  /\ promo.breaking_news[surface.news[1].news_id].priority = "urgent"
  /\ promo.breaking_news[surface.news[2].news_id].priority = "low"
  /\ surface.news[2].trending_score > surface.news[1].trending_score

\* C17 (as claimed): the pinned surface answers with the eligible articles,
\* the lower position first and the unset positions last, among equal
\* positions gold, then silver, bronze, then unset, then the later promotion
\* start first, then the later publish time first.
C17_Before(a, b) ==
  LET place(x) == IF promo.pinned_news[x].position = Null THEN <<1, 0>>
                  ELSE <<0, promo.pinned_news[x].position>>
      tier(x) ==
        LET named == {i \in 1..3 :
                        <<"gold", "silver", "bronze">>[i] =
                          promo.pinned_news[x].tier}
        IN IF named = {} THEN 4 ELSE CHOOSE i \in named : TRUE
      start(x) == promo.pinned_news[x].starts_at
  IN \/ place(a)[1] < place(b)[1]
     \/ place(a)[1] = place(b)[1] /\ place(a)[2] < place(b)[2]
     \/ place(a) = place(b) /\ tier(a) < tier(b)
     \/ place(a) = place(b) /\ tier(a) = tier(b) /\ start(a) > start(b)
     \/ place(a) = place(b) /\ tier(a) = tier(b) /\ start(a) = start(b)
          /\ news[a].published > news[b].published

C17_PinnedOrder ==
  (/\ surface.pc = "done" /\ surface.which = "pinned_news"
   /\ surface.q.category = Absent /\ surface.q.limit = Absent
   /\ surface.q.page = Absent)
    => /\ surface.code = 200
       /\ {surface.news[i].news_id : i \in 1..Len(surface.news)}
            = Eligible("pinned_news", surface.q)
       /\ \A i, j \in 1..Len(surface.news) :
            i < j => C17_Before(surface.news[i].news_id, surface.news[j].news_id)

\* The claimed score in tenths, at an age in half hours: the weighted sum of
\* the counters, a missing counter counting as 0, times the decay of the first
\* age bracket the age is under.
C18_Score(e, age) ==
  LET count(v) == IF v = Null THEN 0 ELSE v
      brackets == <<<<2, 30>>, <<6, 20>>, <<12, 15>>, <<24, 12>>, <<48, 10>>,
                    <<96, 5>>>>
      under == {i \in 1..Len(brackets) : age < brackets[i][1]}
      decay == IF under = {} THEN 2
               ELSE brackets[CHOOSE i \in under : \A j \in under : i <= j][2]
  IN (count(e.views) + 5 * count(e.likes_count) + 10 * count(e.comments_count)
      + 15 * count(e.share_count)) * decay

\* The article of the i-th row of the response: its counters and its age.
C18_Row(i) ==
  [e |-> promo.engagement[surface.news[i].news_id],
   age |-> surface.q.now - news[surface.news[i].news_id].published]

\* C18 (as claimed): every returned article carries the claimed score, the
\* score of its counters at any later age is no higher, and its score at half
\* an hour is higher than its score at thirty hours.
C18_YoungerScoresHigher ==
  (surface.pc = "done" /\ surface.code = 200)
    => \A i \in 1..Len(surface.news) :
         /\ surface.news[i].trending_score = C18_Score(C18_Row(i).e, C18_Row(i).age)
         /\ \A t \in C18_Row(i).age..(C18_Row(i).age + 100) :
              trending_score(C18_Row(i).e, t) <= surface.news[i].trending_score
         /\ trending_score(C18_Row(i).e, 1) > trending_score(C18_Row(i).e, 60)

\* C18 (amended): every returned article carries the claimed score, the score
\* of its counters at any later age is no higher, and its score at half an
\* hour is higher than its score at thirty hours unless all its counters are
\* zero or missing, when both scores are 0.
C18_TrendingScore ==
  (surface.pc = "done" /\ surface.code = 200)
    => \A i \in 1..Len(surface.news) :
         /\ surface.news[i].trending_score = C18_Score(C18_Row(i).e, C18_Row(i).age)
         /\ \A t \in C18_Row(i).age..(C18_Row(i).age + 100) :
              trending_score(C18_Row(i).e, t) <= surface.news[i].trending_score
         /\ IF \A f \in DOMAIN C18_Row(i).e : C18_Row(i).e[f] \in {Null, 0}
            THEN /\ trending_score(C18_Row(i).e, 1) = 0
                 /\ trending_score(C18_Row(i).e, 60) = 0
            ELSE trending_score(C18_Row(i).e, 1) > trending_score(C18_Row(i).e, 60)

C18_Witness ==
  /\ surface.pc = "done" /\ surface.code = 200 /\ surface.q.now = 61
  /\ \E i \in 1..Len(surface.news) :
       /\ C18_Row(i).age = 60
       /\ C18_Row(i).e.views = Null /\ C18_Row(i).e.likes_count = 2
       /\ surface.news[i].trending_score = 5 * (10 + 10 * C18_Row(i).e.comments_count)

\* C19 (as claimed): whatever the limit parameter of a read, the limit its
\* list statement is sent with is an integer from 1 to 100 and so is the
\* per_page of its response; both are 50 when the parameter is absent.
C19_PerPageInRange ==
  surface.pc = "done"
    => /\ ~Paging(surface.q).limit.nan
       /\ Paging(surface.q).limit.n \in 1..100
       /\ surface.per_page \in 1..100
       /\ surface.q.limit = Absent
            => Paging(surface.q).limit.n = 50 /\ surface.per_page = 50

\* C20 (as claimed): a pinned read with a category slug answers 200 with the
\* eligible pinned articles that have a link to the category of that slug,
\* each once, and with their number as total_items.
C20_PinnedByCategory ==
  (/\ surface.pc = "done" /\ surface.which = "pinned_news"
   /\ surface.q.category # Absent)
    => LET linked ==
             {a \in ArticleIds :
                /\ C15_Shown("pinned_news", a, surface.q.now)
                /\ \E row \in rows : /\ row.t = "news_categories" /\ row.id = a
                                      /\ row.k = surface.q.category.n}
       IN /\ surface.code = 200
          /\ surface.total_items = Cardinality(linked)
          /\ Len(surface.news) = Cardinality(linked)
          /\ {surface.news[i].news_id : i \in 1..Len(surface.news)} = linked

\* The article row, the category links and the social links of the article of
\* request w are the ones its body supplied.
C14_Supplied(w) ==
  LET id == h[w].newsId
      cats == safeJSON(h[w].in.cats).a
      links == safeJSON(h[w].in.social).a
  IN /\ news[id].exists /\ news[id].status = h[w].in.status
     /\ news[id].primary = h[w].in.primary.n
     /\ news[id].category = h[w].in.primary.n
     /\ news[id].quotes = (IF extractQuotes(h[w].in.content) # <<>> THEN "snapshot" ELSE "empty")
     /\ {<<row.k, row.f>> : row \in {x \in rows : x.t = "news_categories" /\ x.id = id}}
          = {<<cats[i], cats[i] = h[w].in.primary.n>> : i \in 1..Len(cats)}
     /\ Cardinality({x \in rows : x.t = "news_categories" /\ x.id = id}) = Len(cats)
     /\ Cardinality({x \in rows : x.t = "news_social_media" /\ x.id = id})
          = Len(links)

\* C14: when an update commits after another update of the same article has
\* committed, the committed article row, category links, quote snapshot and
\* social links are all the ones of the request that commits last.
C14_Step ==
  \A w \in ConcurrentSlots : \A q \in ConcurrentSlots \ {w} :
    (/\ h[w].route = "update" /\ h[w].pc = "commit" /\ h'[w].pc = "finally"
     /\ tx[w].st = "open"
     /\ h[q].route = "update" /\ h[q].pc \in {"finally", "done"}
     /\ h[q].newsId = h[w].newsId
     /\ resp[q].code = 200 /\ h[q].failed = {})
      => C14_Supplied(w)'

C14_LastWriterWins == [][C14_Step]_vars

C14_Witness ==
  \E w \in ConcurrentSlots : \E q \in ConcurrentSlots \ {w} :
    /\ Finished(w, {"update"}) /\ Finished(q, {"update"})
    /\ resp[w].code = 200 /\ h[w].failed = {}
    /\ resp[q].code = 200 /\ h[q].failed = {}
    /\ h[w].newsId = h[q].newsId
    /\ h[w].in.primary # h[q].in.primary /\ h[w].in.cats # h[q].in.cats
    /\ h[w].in.content # h[q].in.content /\ h[w].in.social # h[q].in.social
    /\ h[w].in.status # h[q].in.status
    /\ C14_Supplied(w) /\ ~C14_Supplied(q)

\* C21: a surface read one of whose statements failed answers success=false
\* with an empty news list, an empty alias list, total_items 0, total_pages 0
\* and neither a next nor a previous page.
C21_FailedReadAnswersEmpty ==
  (surface.pc = "done" /\ (surface.count = "failed" \/ surface.list = "failed"))
    => /\ ~surface.success
       /\ surface.news = <<>> /\ surface.alias = <<>>
       /\ surface.total_items = 0 /\ surface.total_pages = 0
       /\ ~surface.has_next /\ ~surface.has_prev

C21_Witness ==
  /\ surface.pc = "done" /\ surface.which = "breaking_news"
  /\ surface.count = "ok" /\ surface.counted # {}
  /\ surface.list = "failed" /\ faults = 0
  /\ ~surface.success /\ surface.total_items = 0

\* C22 (as claimed): no article has more than one committed media row with
\* is_featured = true, and the cover of an article that has a featured row is
\* the url of a featured row.
C22_AtMostOneFeatured ==
  \A a \in ArticleIds :
    LET featured == {x \in rows : x.t = "news_images" /\ x.id = a /\ x.f}
    IN /\ Cardinality(featured) <= 1
       /\ (news[a].exists /\ featured # {})
            => \E x \in featured : news[a].image = x.k

\* C23 (as claimed): after an update that answered success, the article's
\* category links are exactly the submitted category_ids, its social links are
\* exactly the submitted links with a url, and its media rows are the rows it
\* had before the request plus one row per uploaded file.
C23_UpdateReplacesLinks ==
  \A r \in Slots :
    Finished(r, {"update"}) /\ resp[r].success
      => LET id == h[r].newsId
             cats == safeJSON(h[r].in.cats).a
             links == safeJSON(h[r].in.social).a
             before == RowsOf(h[r].pre.rows, "news_images", id)
             after == RowsOf(rows, "news_images", id)
         IN /\ {x.k : x \in RowsOf(rows, "news_categories", id)}
                 = {cats[j] : j \in 1..Len(cats)}
            /\ {x.k : x \in RowsOf(rows, "news_social_media", id)}
                 = {j \in 1..Len(links) : links[j] = "url"}
            /\ before \subseteq after
            /\ Cardinality(after \ before) = Len(h[r].in.files)

\* C24 (as claimed): a create or update one of whose INSERTs was refused by a
\* unique constraint (no statement was failed by the environment, the link
\* table has its unique constraint and the refused link repeats a category of
\* the request) leaves every table as it was and answers 409.
C24_ConflictAnswers409 ==
  \A r \in Slots :
    (/\ Finished(r, {"create", "update"})
     /\ h[r].failed = {"category"} /\ faults = MaxFaults
     /\ schema.uniqueLinks /\ h[r].i > 1)
      => /\ Snapshot = h[r].pre
         /\ resp[r].code = 409 /\ ~resp[r].success

\* C25: when the existence check of an update or of a single delete runs and
\* the article table has no row for the target id, the request answers 404,
\* ends its transaction, goes to its finally block and no table has changed.
C25_Step ==
  \A r \in ConcurrentSlots :
    (/\ h[r].pc = "begun" /\ h[r].route \in {"update"} \cup SingleRoutes
     /\ h'[r].pc \notin {"begun", "catch"}
     /\ h'[r].newsId \in ArticleIds /\ ~news[h'[r].newsId].exists)
      => /\ resp'[r].code = 404 /\ ~resp'[r].success
         /\ h'[r].pc = "finally" /\ tx'[r] = NoTx
         /\ db' = db

C26_NoErrorDetail ==
  \A r \in Slots :
    (h[r].pc = "done" /\ resp[r].code # 0 /\ ~resp[r].success)
      => resp[r].message # "" /\ resp[r].error = {}

\* C27 (as claimed): no two articles share a slug.
C27_SlugsAreDistinct ==
  \A a \in ArticleIds : \A b \in ArticleIds \ {a} :
    news[a].exists /\ news[b].exists => news[a].slug # news[b].slug

\* C28 (as claimed): a create by an editor with category_ids=[3,7],
\* primary_category_id=7 and status 'published' that is answered with success
\* is answered 201 with status 'pending_approval' and requires_approval=true.
C28_EditorNeedsApproval ==
  \A r \in Slots :
    (/\ Finished(r, {"create"}) /\ resp[r].success
     /\ h[r].in.role = "editor" /\ h[r].in.status = "published"
     /\ h[r].in.cats = Array(<<3, 7>>) /\ h[r].in.primary = Num(7))
      => /\ resp[r].code = 201
         /\ resp[r].status = "pending_approval"
         /\ resp[r].requires_approval

\* C29 (as claimed): the quotes extracted from a raw body are one record for
\* each closing tag that has an opening tag since the closing tag before it,
\* their offsets increase from one record to the next, and the characters of
\* the raw body that start at a record's offset are the record's text.
C29_OffsetsPointAtText ==
  \A r \in Slots :
    Finished(r, {"create"}) /\ resp[r].success
      => LET raw == h[r].in.content
             qs == extractQuotes(raw)
             ended == {k \in 1..Len(raw) :
                         /\ raw[k] = "[/QUOTE]"
                         /\ \E j \in 1..(k - 1) :
                              /\ raw[j] \in {"[QUOTE]", "[QUOTE sayer=\"s\"]"}
                              /\ \A m \in j..(k - 1) : raw[m] # "[/QUOTE]"}
         IN /\ Len(qs) = Cardinality(ended)
            /\ \A i \in 1..Len(qs) : \A j \in (i + 1)..Len(qs) :
                 qs[i].position < qs[j].position
            /\ \A i \in 1..Len(qs) :
                 SubSeq(Chars(raw), qs[i].position + 1,
                        qs[i].position + Len(Chars(qs[i].text)))
                   = Chars(qs[i].text)

\* C30 (as claimed): when an update reaches its COMMIT and the article it
\* found at its existence check has been deleted meanwhile, the update does not
\* answer success, and no category link, social link or media row references
\* the deleted id afterwards.
C30_Step ==
  \A w \in ConcurrentSlots :
    (/\ h[w].route = "update" /\ h[w].pc = "commit" /\ h'[w].pc = "finally"
     /\ ~news[h[w].newsId].exists)
      => /\ ~resp'[w].success
         /\ \A t \in CoreTables : RowsOf(rows', t, h[w].newsId) = {}

C30_UpdateOfDeletedArticle == [][C30_Step]_vars

\* C31 (as claimed): a request that answered success=true has its changes in
\* the committed tables: its audit row is there, a created article exists and
\* a deleted article does not.
C31_SuccessMeansDurable ==
  \A r \in Slots :
    (h[r].pc = "done" /\ resp[r].success)
      => /\ audit # h[r].pre.audit
         /\ (h[r].route = "create") => news[h[r].newsId].exists
         /\ (h[r].route \in SingleRoutes) => ~news[h[r].newsId].exists

\* C32 (as claimed): every request that has been taken up is eventually
\* finished with an HTTP response sent, whichever statements failed on the
\* way, the handler's own ROLLBACK included.
C32_EveryRequestAnswered ==
  \A r \in Slots :
    (h[r].pc # "idle") ~> (h[r].pc = "done" /\ resp[r] # NoResp)

\* The validation rules in the order the contract gives them, each one judged
\* on the request body alone: <<violated, message>>.
C33_Rules(in, withAuthor) ==
  LET cats == safeJSON(in.cats) IN
  << <<\/ in.title = "" \/ in.content = <<>> \/ ~Truthy(in.cats)
       \/ ~Truthy(in.primary) \/ (withAuthor /\ ~Truthy(in.author)),
       "Missing required fields">>,
     <<withAuthor /\ parseIntSafe(in.author) = 0, "Invalid author_id">>,
     <<~IsArray(cats) \/ Len(cats.a) = 0,
       "At least one category must be selected">>,
     <<parseIntSafe(in.primary) = 0, "Primary category ID is required">>,
     <<~Includes(cats.a, parseIntSafe(in.primary)),
       "Primary category must be one of the selected categories">> >>

C33_Violated(in, withAuthor) ==
  {k \in 1..5 : C33_Rules(in, withAuthor)[k][1]}

C33_Earliest(in, withAuthor) ==
  CHOOSE k \in C33_Violated(in, withAuthor) :
    \A j \in C33_Violated(in, withAuthor) : k <= j

\* The requests whose validation has run: a create past its first step, an
\* update past its existence check.
C33_Validated(r) ==
  \/ h[r].route = "create" /\ h[r].pc \notin {"idle", "begun"}
  \/ /\ h[r].route = "update" /\ h[r].pc \notin {"idle", "begun", "validate"}
     /\ resp[r].code # 404 /\ "check" \notin h[r].failed

C34_PaginationMatchesList ==
  (surface.pc = "done" /\ surface.success)
    => LET S == Eligible(surface.which, surface.q)
           offset == (surface.current_page - 1) * surface.per_page
           rest == IF Cardinality(S) > offset THEN Cardinality(S) - offset ELSE 0
       IN /\ surface.per_page >= 1 /\ surface.current_page >= 1
          /\ surface.total_pages * surface.per_page >= surface.total_items
          /\ (surface.total_pages - 1) * surface.per_page < surface.total_items
          /\ surface.has_next <=> (surface.current_page < surface.total_pages)
          /\ surface.has_prev <=> (surface.current_page > 1)
          /\ Len(surface.news) <= surface.per_page
          /\ Len(surface.news) = IF rest < surface.per_page THEN rest
                                 ELSE surface.per_page
          /\ \E sq \in Orderings(surface.which, S) :
               \A i \in 1..Len(surface.news) :
                 surface.news[i].news_id = sq[offset + i]

\* The second of two pages of one article each.
C34_Witness ==
  /\ surface.pc = "done" /\ surface.success
  /\ surface.current_page = 2 /\ surface.per_page = 1
  /\ surface.total_items = 2 /\ surface.total_pages = 2
  /\ Len(surface.news) = 1 /\ surface.has_prev /\ ~surface.has_next

\* C35: in every committed state, each article has a category link flagged
\* is_primary, and the category of every such link is the article row's
\* primary_category_id and its category_id.
C35_PrimaryMatchesLink ==
  \A a \in ArticleIds :
    news[a].exists =>
      /\ \E row \in rows : row.t = "news_categories" /\ row.id = a /\ row.f
      /\ \A row \in rows :
           (row.t = "news_categories" /\ row.id = a /\ row.f)
             => row.k = news[a].primary /\ row.k = news[a].category

\* An update that moved article 1 from category 3 to category 7 has committed.
C35_Witness ==
  \E r \in Slots :
    /\ h[r].pc = "done" /\ h[r].route = "update" /\ resp[r].code = 200
    /\ h[r].newsId = 1 /\ h[r].pre.news[1].primary = 3
    /\ news[1].primary = 7 /\ news[1].category = 7
    /\ \E row \in rows : row.t = "news_categories" /\ row.id = 1 /\ row.f /\ row.k = 7

\* C36 (as claimed): a delete request that answered success and removed the
\* article was made by an actor whose role has hard-delete capability
\* (super_admin or admin).
C36_OnlyDeletersDelete ==
  \A r \in Slots :
    (/\ h[r].route \in SingleRoutes /\ h[r].pc = "done" /\ resp[r].success
     /\ h[r].pre.news[h[r].newsId].exists /\ ~news[h[r].newsId].exists)
      => can_hard_delete(h[r].in.role)

\* A step of the guard (in front of the posts router's delete) or of
\* GET /verify in slot r, the session it found, and whether it let the
\* request through.
C37_GuardStep(r) ==
  /\ h[r].pc \in {"idle", "done"} /\ started' = started + 1
  /\ h'[r].route \in {"delete_post", "verify"}
C37_Valid == session.adminId # 0 /\ ActiveAdmin(session.adminId) # {}
C37_Passed(r) ==
  IF h'[r].route = "verify" THEN resp'[r].code = 200 ELSE h'[r].pc = "next"

\* C37 (as claimed): the guard lets a request through only when the session's
\* adminId matches an active admin row; otherwise it answers 401, and when the
\* session has an adminId whose row is missing or inactive it destroys the
\* session.
C37_AsClaimedStep ==
  \A r \in Slots :
    C37_GuardStep(r) =>
      /\ C37_Passed(r) => C37_Valid
      /\ ~C37_Valid => ~C37_Passed(r) /\ h'[r].pc = "done" /\ resp'[r].code = 401
      /\ (session.adminId # 0 /\ ~C37_Valid) => session' = NoSession

C37_GuardRejectsWith401 == [][C37_AsClaimedStep]_vars

\* C37: the guard lets a request through only when the session's adminId
\* matches an active admin row; otherwise the handler is not invoked and the
\* answer is 401, or 500 when the lookup of the admin row raised; when the
\* lookup returned no active row the session is destroyed, so that every later
\* request of a deactivated admin is rejected as well.
C37_AmendedStep ==
  \A r \in Slots :
    C37_GuardStep(r) =>
      /\ C37_Passed(r) => C37_Valid /\ h'[r].adminId = session.adminId
      /\ ~C37_Valid
           => /\ ~C37_Passed(r) /\ h'[r].pc = "done" /\ ~held'[r]
              /\ resp'[r].code \in {401, 500}
              /\ resp'[r].code = 500 <=> faults' < faults
      /\ (session.adminId # 0 /\ ~C37_Valid /\ resp'[r].code = 401)
           => session' = NoSession

C37_GuardPassesActiveAdminsOnly == [][C37_AmendedStep]_vars

\* An admin who logged in and was then suspended has been turned away from the
\* delete route, and the session is gone.
C37_Witness ==
  \E r \in Slots :
    /\ h[r].route = "delete_post" /\ h[r].pc = "done" /\ resp[r].code = 401
    /\ resp[r].message = "Invalid or inactive admin account"
    /\ session = NoSession /\ \E a \in AdminIds : admins[a].status = "suspended"

\* C38 (as claimed): the session gets an adminId only in a login whose
\* password check succeeded on an active admin, and it gets that admin's id;
\* a login that answers a failure leaves a session that had no adminId
\* without one.
C38_Step ==
  \A r \in Slots :
    /\ (session'.adminId # 0 /\ session'.adminId # session.adminId)
         => /\ h[r].route = "login" /\ h[r].pc = "regenerate"
            /\ session'.adminId = h[r].adminId
    /\ (/\ h'[r].route = "login" /\ h'[r].pc = "done" /\ h[r] # h'[r]
        /\ ~resp'[r].success /\ session.adminId = 0)
         => session'.adminId = 0

C38_SessionFollowsLogin == [][C38_Step]_vars

\* C39 (as claimed): once the six replacements have been carried out, in
\* whatever order, the body is the one the handler's chain produces.
C39_AnyOrderSameBody ==
  formatting.applied = 1..6
    => formatting.body = processContentFormatting(formatting.raw)

\* C39: once the six replacements have been carried out in an order that
\* replaces the attributed quotes before the bare ones, the body is the one
\* the handler's chain produces, whatever the place of the other four
\* replacements, also for nested, multi-line and unbalanced markers.
C39_SameBodyWhenAttributedFirst ==
  (formatting.applied = 1..6 /\ ~formatting.bareFirst)
    => formatting.body = processContentFormatting(formatting.raw)

\* A bare quote around an attributed one behind a line break, all six done.
C39_Witness ==
  /\ formatting.applied = 1..6 /\ ~formatting.bareFirst
  /\ formatting.raw =
       <<"[QUOTE]", "\n", "[QUOTE sayer=\"s\"]", "[/QUOTE]">>
  /\ formatting.body # formatting.raw

\* The dependent sets the delete contract names.
NamedSets == {AdminTables[j] : j \in 1..Len(AdminTables)}
Dangling(id) == {x \in rows : x.id = id /\ x.t \in NamedSets}
Elements(q) == {q[j] : j \in 1..Len(q)}
Occurrences(q, v) == Cardinality({j \in 1..Len(q) : q[j] = v})

\* C6 (as claimed): after a single delete answered 200 for an article it
\* removed, and for every id a bulk delete lists in results.success and
\* removed, no row of a named dependent set refers to that id.
C6_NoDanglingReference ==
  \A r \in Slots :
    /\ Finished(r, SingleRoutes) /\ resp[r].code = 200
         /\ ~news[h[r].newsId].exists
         => Dangling(h[r].newsId) = {}
    /\ Finished(r, BulkRoutes) /\ resp[r].code = 200
         => \A v \in Elements(resp[r].results.success) :
              ~news[v.n].exists => Dangling(v.n) = {}

\* C7 (as claimed): a single delete answers 200 only if its own DELETE of the
\* article row removed a row, also when another delete of the same id is in
\* flight (so that of the two at most one answers 200).
C7_SuccessOnlyIfRootRemoved ==
  \A r \in ConcurrentSlots :
    Finished(r, SingleRoutes) /\ resp[r].code = 200 => h[r].rootCount = 1

\* C8 (as claimed): a single delete through safeDelete of an existing article,
\* on a deployment where one of its dependent tables is missing and nothing
\* else fails, answers 200 and leaves neither the article nor a row of an
\* existing dependent table that refers to it.
C8_MissingTableIsTolerated ==
  \A r \in Slots :
    ( /\ Finished(r, {"delete_safe"}) /\ h[r].newsId # 0
      /\ h[r].pre.news[h[r].newsId].exists
      /\ schema.missing \cap NamedSets # {} /\ faults = DeleteFaults )
      => /\ resp[r].code = 200 /\ resp[r].success
         /\ ~news[h[r].newsId].exists
         /\ Dangling(h[r].newsId) = {}

\* C9 (as claimed): after a bulk delete in which a statement of some item
\* failed, every id listed in results.success is absent from the article table.
C9_ItemFailureIsIsolated ==
  \A r \in Slots :
    ( /\ Finished(r, BulkRoutes) /\ resp[r].code = 200
      /\ h[r].failed \ {"audit"} # {} )
      => \A v \in Elements(resp[r].results.success) : ~news[v.n].exists

FailedIds(res) == [j \in 1..Len(res.failed) |-> res.failed[j].id]

\* C10 (as claimed): a bulk delete of a non-empty array of integer ids, with no
\* statement failed by the environment, answers 200; every submitted id is in results.success or results.failed as often as
\* it was submitted and not in both lists unless submitted twice; an id without
\* an article row is in failed with reason 'Not found'; an id whose article
\* existed and is gone is in success.
C10_ResultsPartitionTheBatch ==
  \A r \in Slots :
    ( /\ Finished(r, BulkRoutes) /\ IsArray(h[r].in.ids)
      /\ Len(h[r].in.ids.a) > 0
      /\ \A w \in Elements(h[r].in.ids.a) : w.kind = "num"
      /\ faults = DeleteFaults )
      => LET ids == h[r].in.ids.a
             res == resp[r].results
         IN /\ resp[r].code = 200
            /\ \A v \in Elements(ids) :
                 /\ Occurrences(ids, v) =
                      Occurrences(res.success, v) + Occurrences(FailedIds(res), v)
                 /\ ~h[r].pre.news[v.n].exists
                      => \A j \in 1..Len(res.failed) :
                           res.failed[j].id = v => res.failed[j].reason = "Not found"
                 /\ h[r].pre.news[v.n].exists /\ ~news[v.n].exists
                      => v \in Elements(res.success)

====
